---- MODULE Spec2Model ----
(***************************************************************************)
(* Training orchestration of ProLoaF: the mini-batch iterator              *)
(* (utils/tensorloader.py), the epoch loop with early stopping             *)
(* (source/train.py, train), the hyperparameter search and the run         *)
(* controller (main of source/train.py and of src/train.py), and the       *)
(* scoring functions (utils/metrics.py).                                   *)
(*                                                                         *)
(* The specifications share the module, one per component:                 *)
(*   SpecLoader   the CustomTensorDataLoader object and its callers,       *)
(*   SpecWindows  make_dataloader on a table, and passes over its loader,  *)
(*   SpecTrain    one call of train(),                                     *)
(*   SpecMain     one run of main(), with manual interrupts,               *)
(*   SpecRuns     runs of source/train.py one after the other,             *)
(*   SpecSeeded   shuffled passes after the generator was seeded,          *)
(*   SpecSearch   trials of the hyperparameter search run in parallel,     *)
(*   SpecScore    calls of the scoring functions.                          *)
(* The variables of the other components keep their initial value.         *)
(***************************************************************************)
EXTENDS Integers, Sequences, FiniteSets, TLC

\* ------------------------------------------------------------------ bounds
\* largest number of windows of a dataset
MaxN == 4
\* largest batch size
MaxBatchSize == 2
\* largest history / forecast horizon of make_dataloader
MaxHorizon == 1
\* largest history / forecast horizon of the windowed datasets of SpecWindows
MaxWindow == 3
\* largest max_epochs of a call of train()
MaxEpochs == 3
\* validation losses and test scores are 0..MaxLoss
MaxLoss == 2
\* largest patience of the early-stopping controller
MaxPatience == 2
\* largest number of batches of the training and of the validation loader
MaxBatches == 2
\* largest number of trials of a search phase
MaxTrials == 2
\* hyperparameter values are 0..MaxParam
MaxParam == 1
\* in a run of main, test scores are 0..MaxScore
MaxScore == 1
\* in a run of main, validation losses are 0..MaxValLoss
MaxValLoss == 1
\* largest size of a dimension of a tensor handed to a scoring function
MaxDim == 3
\* largest number of elements of a tensor whose values are enumerated
MaxElems == 2

VARIABLES
    \* ---- CustomTensorDataLoader (utils/tensorloader.py)
    ld_obj,            \* "none": no constructor call yet, "alive", "failed"
    ld_args,           \* the arguments of the constructor call
    ld_attrs,          \* names of the attributes set on the object
    ld_dataset,        \* self.dataset, as len(self.dataset)
    ld_tensors,        \* inputs1, inputs2, targets: the table row each window starts at
    ld_batch_size,     \* self.batch_size
    ld_shuffle,        \* self.shuffle
    ld_drop_last,      \* self.drop_last
    ld_permutation,    \* self.permutation: a sequence of rows of indices
    ld_batch_index,    \* self.batch_index
    ld_result,         \* outcome of the last call on the loader
    ld_yielded,        \* the batches returned since the last __iter__
    ld_consumed,       \* batches that had been returned when __iter__ was last called
    ld_draw,           \* global RNG state when __iter__ was last called
    rng,               \* state of numpy's global RNG
    \* ---- train() (source/train.py)
    t_pc,              \* position in train()
    t_max_epochs,      \* max_epochs
    t_n_train,         \* len(train_data_loader)
    t_n_val,           \* len(validation_data_loader)
    t_epoch,           \* epochs begun: the loop variable epoch, plus one
    t_batch,           \* batches consumed in the running for loop
    t_net,             \* net's parameters: the epoch that last trained them, 0 = initial
    t_validation_loss, \* validation_loss of the running epoch
    t_losses,          \* the validation losses passed to early_stopping, in order
    t_scored_net,      \* the parameters performance_test ran on, -1 = not run
    t_result,          \* what train() returned or raised
    \* ---- mh.EarlyStopping
    es_patience,       \* patience
    es_counter,        \* counter
    es_val_loss_min,   \* val_loss_min
    es_early_stop,     \* early_stop
    es_checkpoint,     \* checkpoint.pt: the epoch whose parameters it holds, 0 = no file
    \* ---- main() (source/train.py: "source"; src/train.py: "src")
    m_variant,         \* which main runs
    m_pc,              \* position in main()
    m_exit,            \* "running", "normal", "interrupt" (caught), or the exception that left main
    m_raised_at,       \* where in the try block KeyboardInterrupt was raised, "" = not raised
    PAR,               \* the run parameters: PAR (source), config (src)
    ARGS_ci,           \* ARGS.ci
    n_trials,          \* number_of_tests of the tuning configuration
    study,             \* the optuna study: finished trials, best value and parameters
    min_val_loss,      \* min_val_loss
    min_net,           \* min_net: None, or the score of the accepted net
    log_df,            \* log_df: None, or the number of records it holds
    m_net,             \* the net of the final training: [loss, score], after train()/fit()
    score_sofar,       \* score_sofar (source); the score of the loaded reference model (src)
    ref_model,         \* ref_model_1: "unset", "none" or "loaded"
    model_wrap,        \* modelhandler.model_wrap: "new" or "ref"
    model_file,        \* the saved model: None, or its score
    config_file,       \* the stored configuration
    written,           \* the artifacts written by this run
    \* ---- study.optimize with n_jobs > 1 (source/train.py, search_params)
    job,               \* per parallel job: the position and the locals of its trial
    \* ---- a caller of the scoring functions (utils/metrics.py)
    sc_call,           \* the last call: function, target, predictions, total
    sc_result,         \* what the last call returned or raised
    sc_prev,           \* the call before the last one, with its result
    \* ---- a caller that seeds the global RNG and iterates (utils/tensorloader.py)
    sd_prev            \* the last pass that ran to its end: RNG state at its start, batches

loaderVars == <<ld_obj, ld_args, ld_attrs, ld_dataset, ld_tensors, ld_batch_size, ld_shuffle,
                ld_drop_last, ld_permutation, ld_batch_index, ld_result,
                ld_yielded, ld_consumed, ld_draw, rng>>

trainVars == <<t_pc, t_max_epochs, t_n_train, t_n_val, t_epoch, t_batch, t_net,
               t_validation_loss, t_losses, t_scored_net, t_result,
               es_patience, es_counter, es_val_loss_min, es_early_stop,
               es_checkpoint>>

mainVars == <<m_variant, m_pc, m_exit, m_raised_at, PAR, ARGS_ci, n_trials, study,
              min_val_loss, min_net, log_df, m_net, score_sofar, ref_model,
              model_wrap, model_file, config_file, written>>

searchVars == <<job>>

scoreVars == <<sc_call, sc_result, sc_prev>>

seedVars == <<sd_prev>>

vars == <<loaderVars, trainVars, mainVars, searchVars, scoreVars, seedVars>>

\* ------------------------------------------------------------- arithmetic
RECURSIVE Factorial(_)
Factorial(n) == IF n <= 1 THEN 1 ELSE n * Factorial(n - 1)

\* sequence s without its i-th element
RemoveAt(s, i) == [k \in 1..(Len(s) - 1) |-> IF k < i THEN s[k] ELSE s[k + 1]]

\* ------------------------------------------------------------ numpy model
\* np.arange(n): 0, 1, ..., n-1
Arange(n) == [k \in 1..n |-> k - 1]

\* number of states of the global RNG: enough to draw every permutation
RngStates == Factorial(MaxN)

\* the r-th arrangement of the sequence avail (factorial number system)
RECURSIVE Unrank(_, _)
Unrank(avail, r) ==
    IF Len(avail) = 0 THEN <<>>
    ELSE LET f == Factorial(Len(avail) - 1)
             i == (r \div f) + 1
         IN  <<avail[i]>> \o Unrank(RemoveAt(avail, i), r % f)

\* np.random.permutation(n) drawn in RNG state s: a permutation of 0..n-1
\* that is a function of the RNG state
RandomPermutation(n, s) == Unrank(Arange(n), s % Factorial(n))

\* the RNG state after a draw
RngAdvance(s) == (s * 7 + 5) % RngStates

\* the first n elements, p[:n]
Take(p, n) == SubSeq(p, 1, IF n < Len(p) THEN n ELSE Len(p))

\* np.reshape(p, (rows, cols)); a size mismatch raises ValueError
ReshapeOk(p, rows, cols) == Len(p) = rows * cols
Reshape(p, rows, cols) ==
    [k \in 1..rows |-> SubSeq(p, (k - 1) * cols + 1, k * cols)]

\* ------------------------------------------------- CustomTensorDataLoader
NoResult == [kind |-> "none", batch |-> <<>>]
Raised(e) == [kind |-> e, batch |-> <<>>]
Returned(b) == [kind |-> "batch", batch |-> b]

\* mutant of LoaderLen: the partial trailing batch is counted
LoaderLenCeil(n, bs) == (n + bs - 1) \div bs

\* CustomTensorDataLoader.__len__
LoaderLen(n, bs) == n \div bs

\* mutant of InitRejects: the guard is missing
InitRejectsNever(drop_last) == FALSE

\* the guard of CustomTensorDataLoader.__init__: drop_last=False is refused
InitRejects(drop_last) == ~drop_last

\* CustomTensorDataLoader.__init__(dataset, batch_size, shuffle, drop_last)
LoaderInit(args) ==
    /\ ld_args' = args
    /\ IF InitRejects(args.drop_last)
       THEN /\ ld_obj' = "failed"
            /\ ld_result' = Raised("NotImplementedError")
            /\ UNCHANGED <<ld_attrs, ld_dataset, ld_batch_size, ld_shuffle,
                           ld_drop_last>>
       ELSE /\ ld_obj' = "alive"
            /\ ld_result' = NoResult
            /\ ld_attrs' = {"dataset", "batch_size", "shuffle", "drop_last"}
            /\ ld_dataset' = args.n
            /\ ld_batch_size' = args.batch_size
            /\ ld_shuffle' = args.shuffle
            /\ ld_drop_last' = args.drop_last
    /\ UNCHANGED <<ld_permutation, ld_batch_index, ld_yielded, ld_consumed,
                   ld_draw, rng>>

\* CustomTensorData(inputs1, inputs2, targets): each window is named by the
\* table row its first row is
CustomTensorData(inputs1, inputs2, targets) ==
    [inputs1 |-> inputs1, inputs2 |-> inputs2, targets |-> targets]

\* no dataset yet
NoTensors == CustomTensorData(<<>>, <<>>, <<>>)

\* a caller constructs the loader over a dataset of n windows
Construct(n, bs, sh, dl) ==
    /\ ld_obj = "none"
    /\ ld_tensors' = CustomTensorData(Arange(n), Arange(n), Arange(n))
    /\ LoaderInit([via |-> "direct", table |-> 0, history_horizon |-> 0,
                   forecast_horizon |-> 0, n |-> n, batch_size |-> bs,
                   shuffle |-> sh, drop_last |-> dl])

\* dt.extract(df, horizon): the number of windows of `horizon` rows in a
\* frame of `rows` rows
ExtractLen(rows, horizon) == rows - horizon + 1

\* mutant of WindowCount: the last window is always cut off
WindowCountCut(T, hh, fh) == ExtractLen(T - hh, fh) - 1

\* make_dataloader: len(CustomTensorData) after the alignment of x_enc and y
WindowCount(T, hh, fh) ==
    LET x_enc == ExtractLen(T - fh, hh)
        y     == ExtractLen(T - hh, fh)
    IN  IF x_enc < y THEN y - 1 ELSE y

\* dt.extract(frame, horizon): one window per row at which `horizon` rows
\* of the frame begin, in the order of the rows
Extract(frame, horizon) ==
    [k \in 1..ExtractLen(frame.rows, horizon) |-> frame.first + k - 1]

\* df.iloc[:-n]: the frame without its last n rows
FrameUntil(T, n) == [first |-> 0, rows |-> T - n]

\* mutant of FrameFrom: the rows are counted from the start of the table
FrameFromStart(T, n) == [first |-> 0, rows |-> T - n]

\* df.iloc[n:]: the frame from row n on
FrameFrom(T, n) == [first |-> n, rows |-> T - n]

\* x[:-1] and x[1:]
DropLast(x) == SubSeq(x, 1, Len(x) - 1)
DropFirst(x) == SubSeq(x, 2, Len(x))

\* make_dataloader: x_enc, x_dec and y after the alignment of their lengths
MakeWindows(T, hh, fh) ==
    LET x_enc == Extract(FrameUntil(T, fh), hh)
        x_dec == Extract(FrameFrom(T, hh), fh)
        y     == Extract(FrameFrom(T, hh), fh)
    IN  IF Len(x_enc) > Len(y) THEN CustomTensorData(DropLast(x_enc), x_dec, y)
        ELSE IF Len(x_enc) < Len(y)
        THEN CustomTensorData(x_enc, DropFirst(x_dec), DropFirst(y))
        ELSE CustomTensorData(x_enc, x_dec, y)

\* make_dataloader(df, ..., history_horizon, forecast_horizon, batch_size,
\* shuffle, drop_last)
MakeDataloader(T, hh, fh, bs, sh, dl) ==
    /\ ld_obj = "none"
    /\ ld_tensors' = MakeWindows(T, hh, fh)
    /\ LoaderInit([via |-> "make_dataloader", table |-> T,
                   history_horizon |-> hh, forecast_horizon |-> fh,
                   n |-> WindowCount(T, hh, fh), batch_size |-> bs,
                   shuffle |-> sh, drop_last |-> dl])

\* __iter__: n = batch_size * (len(dataset) // batch_size)
IterCount(n, bs) == bs * (n \div bs)

\* mutant of IterPermutation: the shuffle flag is ignored
IterPermutationAlwaysShuffled(n, bs, sh, s) ==
    Take(RandomPermutation(n, s), IterCount(n, bs))

\* mutant of IterPermutation: indices drawn with replacement
IterPermutationWithReplacement(n, bs, sh, s) ==
    IF sh THEN [k \in 1..IterCount(n, bs) |-> (s \div k) % n]
    ELSE Arange(IterCount(n, bs))

\* mutant of IterPermutation: the draw also depends on how many batches the
\* caller had taken before
IterPermutationUnseeded(n, bs, sh, s) ==
    IF sh THEN Take(RandomPermutation(n, s + ld_batch_index), IterCount(n, bs))
    ELSE Arange(IterCount(n, bs))

\* __iter__: the index sequence of the pass, before it is reshaped
IterPermutation(n, bs, sh, s) ==
    IF sh THEN Take(RandomPermutation(n, s), IterCount(n, bs))
    ELSE Arange(IterCount(n, bs))

\* mutant of IterBatchIndex: the position is kept across __iter__ calls
IterBatchIndexKept(old) == old

\* __iter__: self.batch_index = 0
IterBatchIndex(old) == 0

\* CustomTensorDataLoader.__iter__
Iter ==
    /\ ld_obj = "alive"
    /\ LET p    == IterPermutation(ld_dataset, ld_batch_size, ld_shuffle, rng)
           rows == LoaderLen(ld_dataset, ld_batch_size)
       IN  IF ReshapeOk(p, rows, ld_batch_size)
           THEN /\ ld_permutation' = Reshape(p, rows, ld_batch_size)
                /\ ld_batch_index' = IterBatchIndex(ld_batch_index)
                /\ ld_attrs' = ld_attrs \cup {"permutation", "batch_index"}
                /\ ld_result' = [kind |-> "iterator", batch |-> <<>>]
           ELSE /\ ld_result' = Raised("ValueError")
                /\ UNCHANGED <<ld_permutation, ld_batch_index, ld_attrs>>
    /\ rng' = IF ld_shuffle THEN RngAdvance(rng) ELSE rng
    /\ ld_draw' = rng
    /\ ld_consumed' = Len(ld_yielded)
    /\ ld_yielded' = <<>>
    /\ UNCHANGED <<ld_obj, ld_args, ld_dataset, ld_tensors, ld_batch_size,
                   ld_shuffle, ld_drop_last>>

\* mutant of NextHasBatch: the pass ends one batch early
NextHasBatchButLast(bi, n, bs) == bi + 1 < LoaderLen(n, bs)

\* __next__: self.batch_index < len(self)
NextHasBatch(bi, n, bs) == bi < LoaderLen(n, bs)

\* CustomTensorDataLoader.__next__; a window is named by its index, so the
\* batch dataset[indices] is the row of indices
LoaderNext ==
    /\ ld_obj = "alive"
    /\ IF "batch_index" \notin ld_attrs
       THEN /\ ld_result' = Raised("AttributeError")
            /\ UNCHANGED <<ld_batch_index, ld_yielded>>
       ELSE IF NextHasBatch(ld_batch_index, ld_dataset, ld_batch_size)
       THEN IF ld_batch_index + 1 \in DOMAIN ld_permutation
            THEN /\ ld_result' = Returned(ld_permutation[ld_batch_index + 1])
                 /\ ld_batch_index' = ld_batch_index + 1
                 /\ ld_yielded' = Append(ld_yielded,
                                         ld_permutation[ld_batch_index + 1])
            ELSE /\ ld_result' = Raised("IndexError")
                 /\ UNCHANGED <<ld_batch_index, ld_yielded>>
       ELSE /\ ld_result' = Raised("StopIteration")
            /\ UNCHANGED <<ld_batch_index, ld_yielded>>
    /\ UNCHANGED <<ld_obj, ld_args, ld_attrs, ld_dataset, ld_tensors,
                   ld_batch_size, ld_shuffle, ld_drop_last, ld_permutation,
                   ld_consumed, ld_draw, rng>>

LoaderStart ==
    /\ ld_obj = "none"
    /\ ld_args = [via |-> "none", table |-> 0, history_horizon |-> 0,
                  forecast_horizon |-> 0, n |-> 0, batch_size |-> 0,
                  shuffle |-> FALSE, drop_last |-> FALSE]
    /\ ld_attrs = {}
    /\ ld_dataset = 0
    /\ ld_tensors = NoTensors
    /\ ld_batch_size = 0
    /\ ld_shuffle = FALSE
    /\ ld_drop_last = FALSE
    /\ ld_permutation = <<>>
    /\ ld_batch_index = 0
    /\ ld_result = NoResult
    /\ ld_yielded = <<>>
    /\ ld_consumed = 0
    /\ ld_draw = 0

LoaderParked == LoaderStart /\ rng = 0

\* --------------------------------------------------------- mh.EarlyStopping
\* +infinity, the initial val_loss_min: above every loss
Inf == MaxLoss + MaxScore + MaxValLoss + 1

\* the tolerance of the improvement test
Delta == 0

\* update: validation_loss < best_loss - epsilon
Improves(val_loss, best) == val_loss < best - Delta

\* update: counter >= patience
PatienceExhausted(counter, patience) == counter >= patience

\* EarlyStopping(): the state of a new controller
EarlyStoppingNew(patience) ==
    /\ es_patience = patience
    /\ es_counter = 0
    /\ es_val_loss_min = Inf
    /\ es_early_stop = FALSE
    /\ es_checkpoint = 0

\* early_stopping(val_loss, net): net's parameters are those of epoch `params`
EarlyStoppingCall(val_loss, params) ==
    /\ IF Improves(val_loss, es_val_loss_min)
       THEN /\ es_counter' = 0
            /\ es_val_loss_min' = val_loss
            /\ es_checkpoint' = params
            /\ es_early_stop' = es_early_stop
       ELSE /\ es_counter' = es_counter + 1
            /\ es_early_stop' =
                   (es_early_stop \/ PatienceExhausted(es_counter + 1, es_patience))
            /\ UNCHANGED <<es_val_loss_min, es_checkpoint>>
    /\ UNCHANGED es_patience

\* ------------------------------------------------------------------ train()
TrainRunning == [kind |-> "running", net |-> 0, val_loss |-> 0, score |-> 0,
                 logged |-> FALSE]
TrainRaised(e) == [kind |-> e, net |-> 0, val_loss |-> 0, score |-> 0,
                   logged |-> FALSE]
TrainReturned(net, val_loss, score, logged) ==
    [kind |-> "returned", net |-> net, val_loss |-> val_loss, score |-> score,
     logged |-> logged]

\* mutant of LoopContinues: the last epoch is left out
LoopContinuesShort(begun, max_epochs) == begun < max_epochs - 1

\* mutant of LoopContinues: one epoch too many
LoopContinuesLong(begun, max_epochs) == begun <= max_epochs

\* for epoch in range(max_epochs): another epoch follows `begun` epochs
LoopContinues(begun, max_epochs) == begun < max_epochs

\* mutant of BreaksOnStop: the break is missing
BreaksOnStopNever(early_stop) == FALSE

\* if early_stopping.early_stop: ... break
BreaksOnStop(early_stop) == early_stop

\* mutant of NetAfterStop: the checkpoint is not loaded
NetAfterStopKept(net, checkpoint) == net

\* net.load_state_dict(torch.load(... "checkpoint.pt"))
NetAfterStop(net, checkpoint) == checkpoint

\* where the loop goes after `begun` epochs: into the next epoch or past it
LoopHead(begun, max_epochs) ==
    IF LoopContinues(begun, max_epochs) THEN "train_batches" ELSE "test_scoring"

\* train(): from the entry to the head of the epoch loop. The first batch is
\* fetched with next(iter(train_data_loader)), which raises StopIteration on
\* a loader without batches.
TrainBegin ==
    /\ t_pc = "begin"
    /\ IF ~NextHasBatch(0, t_n_train, 1)
       THEN /\ t_pc' = "raised"
            /\ t_result' = TrainRaised("StopIteration")
            /\ UNCHANGED t_epoch
       ELSE /\ t_pc' = LoopHead(0, t_max_epochs)
            /\ t_epoch' = IF LoopContinues(0, t_max_epochs) THEN 1 ELSE 0
            /\ UNCHANGED t_result
    /\ UNCHANGED <<t_max_epochs, t_n_train, t_n_val, t_batch, t_net,
                   t_validation_loss, t_losses, t_scored_net,
                   es_patience, es_counter, es_val_loss_min, es_early_stop,
                   es_checkpoint>>

\* one pass of `for ... in train_data_loader`: a batch, with its optimizer
\* step, or the end of the pass
TrainBatch ==
    /\ t_pc = "train_batches"
    /\ IF NextHasBatch(t_batch, t_n_train, 1)
       THEN /\ t_batch' = t_batch + 1
            /\ t_net' = t_epoch
            /\ UNCHANGED <<t_pc, t_validation_loss>>
       ELSE /\ t_pc' = "validation_batches"
            /\ t_batch' = 0
            /\ t_validation_loss' = 0
            /\ UNCHANGED t_net
    /\ UNCHANGED <<t_max_epochs, t_n_train, t_n_val, t_epoch, t_losses,
                   t_scored_net, t_result,
                   es_patience, es_counter, es_val_loss_min, es_early_stop,
                   es_checkpoint>>

\* one pass of `for ... in validation_data_loader`: a batch, which adds to
\* validation_loss, or the end of the pass. The sum is drawn once, with the
\* last batch; without batches it stays 0.0.
ValidationBatch ==
    /\ t_pc = "validation_batches"
    /\ IF NextHasBatch(t_batch, t_n_val, 1)
       THEN /\ t_batch' = t_batch + 1
            /\ IF t_batch + 1 = t_n_val
               THEN t_validation_loss' \in 0..MaxLoss
               ELSE UNCHANGED t_validation_loss
            /\ UNCHANGED t_pc
       ELSE /\ t_pc' = "early_stopping"
            /\ t_batch' = 0
            /\ UNCHANGED t_validation_loss
    /\ UNCHANGED <<t_max_epochs, t_n_train, t_n_val, t_epoch, t_net, t_losses,
                   t_scored_net, t_result,
                   es_patience, es_counter, es_val_loss_min, es_early_stop,
                   es_checkpoint>>

\* early_stopping(validation_loss, net), then the test of early_stop: load
\* the checkpoint and break, or go on with the loop
EarlyStoppingStep ==
    /\ t_pc = "early_stopping"
    /\ EarlyStoppingCall(t_validation_loss, t_net)
    /\ t_losses' = Append(t_losses, t_validation_loss)
    /\ IF BreaksOnStop(es_early_stop')
       THEN IF es_checkpoint' = 0
            THEN /\ t_pc' = "raised"
                 /\ t_result' = TrainRaised("FileNotFoundError")
                 /\ UNCHANGED <<t_net, t_epoch>>
            ELSE /\ t_net' = NetAfterStop(t_net, es_checkpoint')
                 /\ t_pc' = "test_scoring"
                 /\ UNCHANGED <<t_epoch, t_result>>
       ELSE /\ t_pc' = LoopHead(t_epoch, t_max_epochs)
            /\ t_epoch' = IF LoopContinues(t_epoch, t_max_epochs)
                          THEN t_epoch + 1 ELSE t_epoch
            /\ UNCHANGED <<t_net, t_result>>
    /\ UNCHANGED <<t_max_epochs, t_n_train, t_n_val, t_batch,
                   t_validation_loss, t_scored_net>>

\* mh.performance_test(net, test_data_loader, "mis", ...): the score is
\* computed on the parameters net holds now
TestScoring(score) ==
    /\ t_pc = "test_scoring"
    /\ t_scored_net' = t_net
    /\ t_result' = [t_result EXCEPT !.score = score]
    /\ t_pc' = "logging"
    /\ UNCHANGED <<t_max_epochs, t_n_train, t_n_val, t_epoch, t_batch, t_net,
                   t_validation_loss, t_losses,
                   es_patience, es_counter, es_val_loss_min, es_early_stop,
                   es_checkpoint>>

\* mutant of LogsRun: every training logs
LogsRunEveryTraining(exploration, trial_id_is_int) == TRUE

\* the run is logged if exploration is off, or on the run whose trial id is
\* not an integer
LogsRun(exploration, trial_id_is_int) ==
    (~exploration) \/ (exploration /\ ~trial_id_is_int)

\* mutant of ReturnedValLoss: the validation loss of the last epoch
ReturnedValLossLast(val_loss_min, validation_loss) == validation_loss

\* the third element of train()'s return: early_stopping.val_loss_min
ReturnedValLoss(val_loss_min, validation_loss) == val_loss_min

\* train(): from the test score to the return. t1_stop is bound in the epoch
\* loop only, so without an epoch log_data's argument and the hparams of
\* TensorBoard raise UnboundLocalError.
TrainFinish(exploration, trial_id_is_int, logging_tb) ==
    /\ t_pc = "logging"
    /\ IF t_epoch = 0 /\ (LogsRun(exploration, trial_id_is_int) \/ logging_tb)
       THEN /\ t_pc' = "raised"
            /\ t_result' = TrainRaised("UnboundLocalError")
       ELSE /\ t_pc' = "done"
            /\ t_result' = TrainReturned(t_net,
                                         ReturnedValLoss(es_val_loss_min, t_validation_loss),
                                         t_result.score,
                                         LogsRun(exploration, trial_id_is_int))
    /\ UNCHANGED <<t_max_epochs, t_n_train, t_n_val, t_epoch, t_batch, t_net,
                   t_validation_loss, t_losses, t_scored_net,
                   es_patience, es_counter, es_val_loss_min, es_early_stop,
                   es_checkpoint>>

TrainStart ==
    /\ t_pc = "begin"
    /\ t_epoch = 0
    /\ t_batch = 0
    /\ t_net = 0
    /\ t_validation_loss = 0
    /\ t_losses = <<>>
    /\ t_scored_net = -1
    /\ t_result = TrainRunning

TrainParked ==
    /\ TrainStart
    /\ t_max_epochs = 0
    /\ t_n_train = 0
    /\ t_n_val = 0
    /\ EarlyStoppingNew(1)

\* --------------------------------------------------------------- main()
\* Python's None, where a number is expected
None == -1

TrialIdAbsent == [kind |-> "absent", n |-> 0]
TrialIdInt(n) == [kind |-> "int", n |-> n]
TrialIdMainRun == [kind |-> "str", n |-> 0]

\* the keys of a configuration that the run controller reads or rewrites
Configs ==
    [exploration : BOOLEAN, best_score : {None} \cup 0..MaxScore,
     best_loss : {None} \cup 0..MaxValLoss, param : 0..MaxParam]

\* read_config, and PAR["trial_id"] = 0 under exploration (__main__)
ReadConfig(cfg) ==
    [exploration |-> cfg.exploration, best_score |-> cfg.best_score,
     best_loss |-> cfg.best_loss, param |-> cfg.param,
     trial_id |-> IF cfg.exploration THEN TrialIdInt(0) ELSE TrialIdAbsent]

\* write_config, after the helper keys were popped
WriteConfig(par) ==
    [exploration |-> par.exploration, best_score |-> par.best_score,
     best_loss |-> par.best_loss, param |-> par.param]

NewStudy == [trials |-> 0, complete |-> 0, best_value |-> Inf, best_params |-> 0]

NothingWritten == [model |-> FALSE, config |-> FALSE, log |-> FALSE]

\* log_data: one more record in the table, if there is a table
LogData(df) == IF df = None THEN None ELSE df + 1

\* min_val_loss: PAR["best_loss"] if it is there and not None, else np.inf
MinValLoss(best_loss) == IF best_loss # None THEN best_loss ELSE Inf

\* score_sofar: PAR["best_score"] if it is there and not None, else np.inf
ScoreSofar(best_score) == IF best_score # None THEN best_score ELSE Inf

\* mutant of ImprovementAchieved: the comparison is turned around
ImprovementAchievedReversed(sofar, new_score) == sofar < new_score

\* if score_sofar > new_score
ImprovementAchieved(sofar, new_score) == sofar > new_score

\* main, source/train.py: from the entry to the try block
MainBegin ==
    /\ m_variant = "source"
    /\ m_pc = "begin"
    /\ log_df' \in {None, 0}
    /\ min_net' = None
    /\ min_val_loss' = MinValLoss(PAR.best_loss)
    /\ m_pc' = IF PAR.exploration THEN "search" ELSE "final_train"
    /\ UNCHANGED <<m_variant, m_raised_at, m_exit, PAR, ARGS_ci, n_trials, study, m_net,
                   score_sofar, ref_model, model_wrap, model_file, config_file,
                   written>>

\* the study after a trial has ended: a pruned trial is counted and leaves
\* no value, a returned value is compared with the best one ("minimize")
StudyAfterTrial(st, param, val_loss, pruned) ==
    IF pruned
    THEN [st EXCEPT !.trials = @ + 1]
    ELSE IF val_loss < st.best_value
    THEN [trials |-> st.trials + 1, complete |-> st.complete + 1,
          best_value |-> val_loss, best_params |-> param]
    ELSE [st EXCEPT !.trials = @ + 1, !.complete = @ + 1]

\* one trial of study.optimize: search_params(trial) draws the parameters,
\* writes them and the next trial id to PAR, trains, and returns val_loss or
\* raises TrialPruned. train() decides on the trial id it finds in PAR whether
\* it hands the run to log_data; log_df stands for the table log_data
\* appends to.
SearchTrial(param, val_loss, pruned) ==
    /\ m_variant = "source"
    /\ m_pc = "search"
    /\ study.trials < n_trials
    /\ PAR' = [PAR EXCEPT !.param = param,
                          !.trial_id = TrialIdInt(PAR.trial_id.n + 1)]
    /\ study' = StudyAfterTrial(study, param, val_loss, pruned)
    /\ log_df' = IF LogsRun(PAR.exploration, PAR'.trial_id.kind = "int")
                 THEN LogData(log_df) ELSE log_df
    /\ UNCHANGED <<m_variant, m_raised_at, m_pc, m_exit, ARGS_ci, n_trials, min_val_loss,
                   min_net, m_net, score_sofar, ref_model, model_wrap,
                   model_file, config_file, written>>

\* after study.optimize: study.best_trial raises ValueError without a
\* completed trial; a better best value is taken over if the user agrees
SearchEnd(overwrite) ==
    /\ m_variant = "source"
    /\ m_pc = "search"
    /\ study.trials = n_trials
    /\ IF study.complete = 0
       THEN /\ m_pc' = "finally"
            /\ m_exit' = "ValueError"
            /\ UNCHANGED PAR
       ELSE /\ m_pc' = "final_train"
            /\ UNCHANGED m_exit
            /\ PAR' = IF min_val_loss > study.best_value /\ ~ARGS_ci /\ overwrite
                      THEN [PAR EXCEPT !.best_loss = study.best_value,
                                       !.param = study.best_params]
                      ELSE PAR
    /\ UNCHANGED <<m_variant, m_raised_at, ARGS_ci, n_trials, study, min_val_loss, min_net,
                   log_df, m_net, score_sofar, ref_model, model_wrap, model_file,
                   config_file, written>>

\* the final training: PAR["trial_id"] = "main_run", then the loaders and the
\* model are built from **PAR and train() runs, which logs the run and
\* returns the net, its validation loss and its test score, or raises
FinalTrain(raises, loss, new_score) ==
    /\ m_variant = "source"
    /\ m_pc = "final_train"
    /\ PAR' = [PAR EXCEPT !.trial_id = TrialIdMainRun]
    /\ IF raises
       THEN /\ m_pc' = "finally"
            /\ m_exit' = "Exception"
            /\ UNCHANGED <<m_net, log_df>>
       ELSE /\ m_pc' = "decide"
            /\ m_net' = [loss |-> loss, score |-> new_score, param |-> PAR.param]
            /\ log_df' = IF LogsRun(PAR.exploration, PAR'.trial_id.kind = "int")
                         THEN LogData(log_df) ELSE log_df
            /\ UNCHANGED m_exit
    /\ UNCHANGED <<m_variant, m_raised_at, ARGS_ci, n_trials, study, min_val_loss, min_net,
                   score_sofar, ref_model, model_wrap, model_file, config_file,
                   written>>

\* the improvement decision; the user is asked twice under exploration
Decide(overwrite, turn_off) ==
    /\ m_variant = "source"
    /\ m_pc = "decide"
    /\ score_sofar' = ScoreSofar(PAR.best_score)
    /\ IF ImprovementAchieved(ScoreSofar(PAR.best_score), m_net.score)
       THEN /\ min_net' = m_net.score
            /\ PAR' =
                   LET asked == PAR.exploration /\ ~ARGS_ci
                   IN  [PAR EXCEPT
                            !.best_score = m_net.score,
                            !.best_loss = IF asked /\ overwrite
                                          THEN study.best_value ELSE m_net.loss,
                            !.param = IF asked /\ overwrite
                                      THEN study.best_params ELSE @,
                            !.exploration = IF asked THEN ~turn_off ELSE @]
       ELSE UNCHANGED <<min_net, PAR>>
    /\ m_pc' = "finally"
    /\ m_exit' = "normal"
    /\ UNCHANGED <<m_variant, m_raised_at, ARGS_ci, n_trials, study, min_val_loss, log_df,
                   m_net, ref_model, model_wrap, model_file, config_file, written>>

\* mutant of SavesModel: the finally block saves whatever it holds
SavesModelAlways(accepted) == TRUE

\* finally: if min_net is not None
SavesModel(accepted) == accepted # None

\* the finally block: the accepted net and PAR are saved, the log is written
Finally ==
    /\ m_variant = "source"
    /\ m_pc = "finally"
    /\ IF SavesModel(min_net)
       THEN /\ model_file' = min_net
            /\ config_file' = WriteConfig(PAR)
       ELSE UNCHANGED <<model_file, config_file>>
    /\ written' = [model |-> SavesModel(min_net), config |-> SavesModel(min_net),
                   log |-> log_df # None]
    /\ m_pc' = "done"
    /\ UNCHANGED <<m_variant, m_raised_at, m_exit, PAR, ARGS_ci, n_trials, study,
                   min_val_loss, min_net, log_df, m_net, score_sofar, ref_model,
                   model_wrap>>

\* main, src/train.py: log.init_logging, before the try block
MainBeginSrc ==
    /\ m_variant = "src"
    /\ m_pc = "begin"
    /\ log_df' \in {None, 0}
    /\ m_pc' = "fit"
    /\ UNCHANGED <<m_variant, m_raised_at, m_exit, PAR, ARGS_ci, n_trials, study,
                   min_val_loss, min_net, m_net, score_sofar, ref_model,
                   model_wrap, model_file, config_file, written>>

\* the datasets, the ModelHandler and modelhandler.fit: the new model, or an
\* exception
Fit(raises, loss, new_score) ==
    /\ m_variant = "src"
    /\ m_pc = "fit"
    /\ IF raises
       THEN /\ m_pc' = "finally"
            /\ m_exit' = "Exception"
            /\ UNCHANGED <<m_net, model_wrap>>
       ELSE /\ m_pc' = "load_model"
            /\ m_net' = [loss |-> loss, score |-> new_score, param |-> PAR.param]
            /\ model_wrap' = "new"
            /\ UNCHANGED m_exit
    /\ UNCHANGED <<m_variant, m_raised_at, PAR, ARGS_ci, n_trials, study, min_val_loss,
                   min_net, log_df, score_sofar, ref_model, model_file,
                   config_file, written>>

\* mutant of LoadOutcome: only FileNotFoundError is caught
LoadOutcomeUncaught(present, loads) ==
    IF present /\ loads
    THEN [ref_model |-> "loaded", pc |-> "select_model", exit |-> "running"]
    ELSE IF ~present
    THEN [ref_model |-> "none", pc |-> "select_model", exit |-> "running"]
    ELSE [ref_model |-> "unset", pc |-> "finally", exit |-> "Exception"]

\* try: ref_model_1 = modelhandler.load_model(...); except FileNotFoundError:
\* ref_model_1 = None; except Exception: ref_model_1 = None
LoadOutcome(present, loads) ==
    IF present /\ loads
    THEN [ref_model |-> "loaded", pc |-> "select_model", exit |-> "running"]
    ELSE [ref_model |-> "none", pc |-> "select_model", exit |-> "running"]

\* modelhandler.load_model of the saved model: FileNotFoundError without a
\* file, and with a file the model or any other exception
LoadModel(loads) ==
    /\ m_variant = "src"
    /\ m_pc = "load_model"
    /\ LET out == LoadOutcome(model_file # None, loads)
       IN  /\ ref_model' = out.ref_model
           /\ m_pc' = out.pc
           /\ m_exit' = out.exit
           /\ score_sofar' = IF out.ref_model = "loaded" THEN model_file
                             ELSE score_sofar
    /\ UNCHANGED <<m_variant, m_raised_at, PAR, ARGS_ci, n_trials, study,
                   min_val_loss, min_net, log_df, m_net, model_wrap, model_file,
                   config_file, written>>

\* modelhandler.select_model([ref_model_1, model_wrap]): the model with the
\* strictly lower score, the reference on a tie
SelectModel(ref_score, new_score) ==
    IF new_score < ref_score THEN "new" ELSE "ref"

\* if ref_model_1 is not None: modelhandler.select_model(...)
Select ==
    /\ m_variant = "src"
    /\ m_pc = "select_model"
    /\ model_wrap' = IF ref_model = "loaded"
                     THEN SelectModel(score_sofar, m_net.score) ELSE model_wrap
    /\ m_pc' = "save_current_model"
    /\ UNCHANGED <<m_variant, m_raised_at, m_exit, PAR, ARGS_ci, n_trials, study,
                   min_val_loss, min_net, log_df, m_net, score_sofar, ref_model,
                   model_file, config_file, written>>

\* modelhandler.save_current_model: the selected model is written
SaveCurrentModel ==
    /\ m_variant = "src"
    /\ m_pc = "save_current_model"
    /\ model_file' = IF model_wrap = "new" THEN m_net.score ELSE score_sofar
    /\ written' = [written EXCEPT !.model = TRUE]
    /\ m_pc' = "write_config"
    /\ UNCHANGED <<m_variant, m_raised_at, m_exit, PAR, ARGS_ci, n_trials, study,
                   min_val_loss, min_net, log_df, m_net, score_sofar, ref_model,
                   model_wrap, config_file>>

\* config.update(modelhandler.get_config()); ch.write_config(config, ...)
WriteConfigSrc ==
    /\ m_variant = "src"
    /\ m_pc = "write_config"
    /\ config_file' = WriteConfig(PAR)
    /\ written' = [written EXCEPT !.config = TRUE]
    /\ m_pc' = "finally"
    /\ m_exit' = "normal"
    /\ UNCHANGED <<m_variant, m_raised_at, PAR, ARGS_ci, n_trials, study, min_val_loss,
                   min_net, log_df, m_net, score_sofar, ref_model, model_wrap,
                   model_file>>

\* the finally block: log.end_logging if there is a log
FinallySrc ==
    /\ m_variant = "src"
    /\ m_pc = "finally"
    /\ written' = [written EXCEPT !.log = (log_df # None)]
    /\ m_pc' = "done"
    /\ UNCHANGED <<m_variant, m_raised_at, m_exit, PAR, ARGS_ci, n_trials, study,
                   min_val_loss, min_net, log_df, m_net, score_sofar, ref_model,
                   model_wrap, model_file, config_file>>

\* except KeyboardInterrupt: print("manual interrupt"); the finally block
\* follows. The same clause in both mains.
CatchesInterrupt(at) ==
    /\ m_exit = "running"
    /\ m_exit' = "interrupt"
    /\ m_raised_at' = at
    /\ m_pc' = "finally"

\* KeyboardInterrupt in the search phase of source/train.py: between two
\* trials, or inside search_params after it wrote the drawn parameters and
\* the next trial id to PAR (the interrupted trial gives the study no value)
InterruptSearch(in_trial, param) ==
    /\ m_variant = "source"
    /\ m_pc = "search"
    /\ CatchesInterrupt("search")
    /\ PAR' = IF in_trial /\ study.trials < n_trials
              THEN [PAR EXCEPT !.param = param,
                               !.trial_id = TrialIdInt(PAR.trial_id.n + 1)]
              ELSE PAR
    /\ UNCHANGED <<m_variant, ARGS_ci, n_trials, study, min_val_loss, min_net,
                   log_df, m_net, score_sofar, ref_model, model_wrap, model_file,
                   config_file, written>>

\* KeyboardInterrupt in the final training of source/train.py: before or
\* after PAR["trial_id"] = "main_run"; train() does not return, so main
\* keeps its log_df and gets no net
InterruptFinalTrain(in_train) ==
    /\ m_variant = "source"
    /\ m_pc = "final_train"
    /\ CatchesInterrupt("final_train")
    /\ PAR' = IF in_train THEN [PAR EXCEPT !.trial_id = TrialIdMainRun] ELSE PAR
    /\ UNCHANGED <<m_variant, ARGS_ci, n_trials, study, min_val_loss, min_net,
                   log_df, m_net, score_sofar, ref_model, model_wrap, model_file,
                   config_file, written>>

\* how far the improvement decision of source/train.py can get before an
\* interrupt: 0 = up to the comparison, 1 = min_net = net, 2 = best_score
\* written, 3 = best_loss written (the first question is open), 4 = the
\* first question answered (the second one is open)
DecideStages == 0..4

\* KeyboardInterrupt in the improvement decision of source/train.py: the
\* assignments up to the given stage have been made
InterruptDecide(stage, overwrite) ==
    /\ m_variant = "source"
    /\ m_pc = "decide"
    /\ CatchesInterrupt("decide")
    /\ score_sofar' = ScoreSofar(PAR.best_score)
    /\ stage >= 1 => ImprovementAchieved(ScoreSofar(PAR.best_score), m_net.score)
    /\ stage >= 4 => (PAR.exploration /\ ~ARGS_ci)
    /\ min_net' = IF stage >= 1 THEN m_net.score ELSE min_net
    /\ PAR' = [PAR EXCEPT
                   !.best_score = IF stage >= 2 THEN m_net.score ELSE @,
                   !.best_loss = IF stage >= 4 /\ overwrite THEN study.best_value
                                 ELSE IF stage >= 3 THEN m_net.loss ELSE @,
                   !.param = IF stage >= 4 /\ overwrite
                             THEN study.best_params ELSE @]
    /\ UNCHANGED <<m_variant, ARGS_ci, n_trials, study, min_val_loss, log_df,
                   m_net, ref_model, model_wrap, model_file, config_file, written>>

\* the statements of the try block of src/train.py
TryBlockSrc ==
    {"fit", "load_model", "select_model", "save_current_model", "write_config"}

\* KeyboardInterrupt in the try block of src/train.py, before the statement
\* main stands at has had its effect
InterruptSrc ==
    /\ m_variant = "src"
    /\ m_pc \in TryBlockSrc
    /\ CatchesInterrupt(m_pc)
    /\ UNCHANGED <<m_variant, PAR, ARGS_ci, n_trials, study, min_val_loss,
                   min_net, log_df, m_net, score_sofar, ref_model, model_wrap,
                   model_file, config_file, written>>

\* the script source/train.py is started again after a run has ended:
\* read_config reads what the last run left in the configuration file, main
\* starts with fresh locals, and the files stay as they are
NextRun ==
    /\ m_variant = "source"
    /\ m_pc = "done"
    /\ PAR' = ReadConfig(config_file)
    /\ m_pc' = "begin"
    /\ m_exit' = "running"
    /\ m_raised_at' = ""
    /\ study' = NewStudy
    /\ min_val_loss' = Inf
    /\ min_net' = None
    /\ log_df' = None
    /\ m_net' = [loss |-> 0, score |-> 0, param |-> 0]
    /\ score_sofar' = Inf
    /\ written' = NothingWritten
    /\ UNCHANGED <<m_variant, ARGS_ci, n_trials, ref_model, model_wrap,
                   model_file, config_file>>

MainStart ==
    /\ m_pc = "begin"
    /\ m_exit = "running"
    /\ m_raised_at = ""
    /\ study = NewStudy
    /\ min_val_loss = Inf
    /\ min_net = None
    /\ log_df = None
    /\ m_net = [loss |-> 0, score |-> 0, param |-> 0]
    /\ score_sofar = Inf
    /\ ref_model = "unset"
    /\ model_wrap = "new"
    /\ written = NothingWritten

MainParked ==
    /\ MainStart
    /\ m_variant = "source"
    /\ config_file = [exploration |-> FALSE, best_score |-> None,
                      best_loss |-> None, param |-> 0]
    /\ PAR = ReadConfig(config_file)
    /\ ARGS_ci = FALSE
    /\ n_trials = 0
    /\ model_file = None

\* ------------------------------------- study.optimize(..., n_jobs > 1)
\* optuna runs the trials of the jobs in threads of one process: all of them
\* call the same search_params closure and work on the same global PAR
Jobs == {"job1", "job2"}

\* a job that has not called search_params yet
NoJob ==
    [pc |-> "start", param |-> None, tid |-> None, built |-> None,
     used_id |-> None, val_loss |-> None, should_prune |-> "unasked",
     result |-> [kind |-> "none", value |-> None]]

\* mutant of ObjectiveResult: the value is returned although should_prune()
ObjectiveResultAlwaysValue(val_loss, should_prune) ==
    [kind |-> "value", value |-> val_loss]

\* the end of search_params: raise TrialPruned if trial.should_prune(),
\* else return val_loss
ObjectiveResult(val_loss, should_prune) ==
    IF should_prune
    THEN [kind |-> "pruned", value |-> None]
    ELSE [kind |-> "value", value |-> val_loss]

\* search_params, lines 347-359: the parameters are drawn from the trial and
\* written to PAR
UpdatePar(j, param) ==
    /\ job[j].pc = "start"
    /\ PAR.exploration
    /\ PAR' = [PAR EXCEPT !.param = param]
    /\ job' = [job EXCEPT ![j].pc = "read_id", ![j].param = param]
    /\ UNCHANGED study

\* line 360, right-hand side: PAR["trial_id"] is read
ReadTrialId(j) ==
    /\ job[j].pc = "read_id"
    /\ job' = [job EXCEPT ![j].pc = "write_id", ![j].tid = PAR.trial_id.n]
    /\ UNCHANGED <<PAR, study>>

\* line 360, the assignment: PAR["trial_id"] = (the value read) + 1
WriteTrialId(j) ==
    /\ job[j].pc = "write_id"
    /\ PAR' = [PAR EXCEPT !.trial_id = TrialIdInt(job[j].tid + 1)]
    /\ job' = [job EXCEPT ![j].pc = "build"]
    /\ UNCHANGED study

\* lines 361-369: dh.transform(**PAR) and mh.make_model(**PAR) build the
\* datasets and the model of the trial from what PAR holds now
BuildTrial(j) ==
    /\ job[j].pc = "build"
    /\ job' = [job EXCEPT ![j].pc = "train", ![j].built = PAR.param]
    /\ UNCHANGED <<PAR, study>>

\* lines 370-377: train(**PAR) names its run after PAR["trial_id"] and
\* returns early_stopping.val_loss_min
TrainTrial(j, val_loss) ==
    /\ job[j].pc = "train"
    /\ job' = [job EXCEPT ![j].pc = "prune", ![j].used_id = PAR.trial_id.n,
                          ![j].val_loss = val_loss]
    /\ UNCHANGED <<PAR, study>>

\* lines 378-382: trial.should_prune() is asked once, after train(); the
\* study takes the outcome
EndTrial(j, should_prune) ==
    /\ job[j].pc = "prune"
    /\ job' = [job EXCEPT ![j].pc = "done",
                          ![j].should_prune = IF should_prune THEN "yes" ELSE "no",
                          ![j].result = ObjectiveResult(job[j].val_loss, should_prune)]
    /\ study' = StudyAfterTrial(study, job[j].param, job[j].val_loss,
                                ObjectiveResult(job[j].val_loss, should_prune).kind = "pruned")
    /\ UNCHANGED PAR

\* what the jobs leave alone
searchFrame ==
    <<m_variant, m_pc, m_exit, m_raised_at, ARGS_ci, n_trials, min_val_loss,
      min_net, log_df, m_net, score_sofar, ref_model, model_wrap, model_file,
      config_file, written>>

SearchParked == job = [j \in Jobs |-> NoJob]

\* ------------------------------------------ tensors (torch), rank 3
\* the values of the elements of a tensor
Values == 0..2

\* shapes [B, H, K] with at most one dimension larger than 1
Shapes ==
    {sh \in (1..MaxDim) \X (1..MaxDim) \X (1..MaxDim) :
        Cardinality({i \in 1..3 : sh[i] > 1}) <= 1}

\* the shapes of the tensors whose values are enumerated
SmallShapes == {sh \in Shapes : sh[1] * sh[2] * sh[3] <= MaxElems}

Indices(sh) == (1..sh[1]) \X (1..sh[2]) \X (1..sh[3])

\* the tensors of a shape
Tensors(sh) == {[shape |-> sh, data |-> d] : d \in [Indices(sh) -> Values]}

\* torch.zeros(sh)
Zeros(sh) == [shape |-> sh, data |-> [i \in Indices(sh) |-> 0]]

\* broadcasting of an elementwise operation: the sizes of each dimension are
\* equal or one of them is 1, else RuntimeError
Broadcastable(s1, s2) ==
    \A i \in 1..3 : s1[i] = s2[i] \/ s1[i] = 1 \/ s2[i] = 1

BroadcastShape(s1, s2) ==
    <<IF s1[1] = 1 THEN s2[1] ELSE s1[1],
      IF s1[2] = 1 THEN s2[2] ELSE s1[2],
      IF s1[3] = 1 THEN s2[3] ELSE s1[3]>>

\* the element of tensor t at index i of a shape t is broadcast to
At(t, i) ==
    t.data[<<IF t.shape[1] = 1 THEN 1 ELSE i[1],
             IF t.shape[2] = 1 THEN 1 ELSE i[2],
             IF t.shape[3] = 1 THEN 1 ELSE i[3]>>]

\* torch.sum: the sum of f over the index set S
RECURSIVE Sum(_, _)
Sum(f, S) ==
    IF S = {} THEN 0
    ELSE LET x == CHOOSE y \in S : TRUE
         IN  f[x] + Sum(f, S \ {x})

\* the sum of the elements of a sequence of numbers
RECURSIVE SumSeq(_)
SumSeq(q) == IF q = <<>> THEN 0 ELSE Head(q) + SumSeq(Tail(q))

\* x[x > 0] under a sum: the positive part
Positive(x) == IF x > 0 THEN x ELSE 0

\* ----------------------------------------- scoring (utils/metrics.py)
ScoringFunctions ==
    {"nll_gauss", "pinball_loss", "quantile_score", "crps_gaussian",
     "residuals", "mse", "rmse", "mape", "mase", "rae", "mae", "picp", "mis"}

\* the outcome of a call: an exception, or a value. The value is the
\* quotient of each of nums by den: one number if total, else one per
\* horizon step. nums is empty where the number itself is not modelled.
ScoreRaised(e) == [kind |-> e, nums |-> <<>>, den |-> 1]
ScoreValue(nums, den) == [kind |-> "value", nums |-> nums, den |-> den]
Computed == ScoreValue(<<>>, 1)

\* the number of quantiles the callers pass to pinball_loss and
\* quantile_score: [0.025, 0.975] in fetch_metrics
Quantiles == <<"0.025", "0.975">>

\* the length of the predictions list each function is called with
Arity(fn) ==
    CASE fn \in {"nll_gauss", "crps_gaussian", "picp", "mis"} -> 2
      [] fn = "pinball_loss" -> Len(Quantiles)
      [] fn = "quantile_score" -> Len(Quantiles) + 1
      [] OTHER -> 1

\* mutant of RejectsHorizon: mae computes something for total=False
RejectsHorizonButMae(fn, total) ==
    /\ ~total
    /\ fn \in {"pinball_loss", "quantile_score", "crps_gaussian", "mape",
               "mase", "rae"}

\* if not total: raise NotImplementedError(...)
RejectsHorizon(fn, total) ==
    /\ ~total
    /\ fn \in {"pinball_loss", "quantile_score", "crps_gaussian", "mape",
               "mase", "rae", "mae"}

\* target.shape == prediction.shape
SameShape(target, prediction) == target.shape = prediction.shape

\* nll_gauss
NllGauss(target, predictions, total) ==
    IF Len(predictions) # 2 THEN ScoreRaised("AssertionError")
    ELSE IF ~SameShape(target, predictions[1]) \/ ~SameShape(target, predictions[2])
    THEN ScoreRaised("AssertionError")
    ELSE Computed

\* pinball_loss: the shape of predictions[i] is asserted for each quantile
PinballLoss(target, predictions, total) ==
    IF RejectsHorizon("pinball_loss", total) THEN ScoreRaised("NotImplementedError")
    ELSE LET bad == {i \in 1..Len(Quantiles) :
                        i > Len(predictions) \/ ~SameShape(target, predictions[i])}
             first == CHOOSE i \in bad : \A k \in bad : i <= k
         IN  IF bad = {} THEN Computed
             ELSE IF first > Len(predictions) THEN ScoreRaised("IndexError")
             ELSE ScoreRaised("AssertionError")

\* residuals, mse, rmse: predictions[0].shape != target.shape raises
PointScore(target, predictions, total) ==
    IF ~SameShape(predictions[1], target) THEN ScoreRaised("ValueError")
    ELSE Computed

\* quantile_score: pinball_loss, then rmse of the prediction after the
\* quantile predictions
QuantileScore(target, predictions, total) ==
    LET loss1 == PinballLoss(target, predictions, total)
    IN  IF loss1.kind # "value" THEN loss1
        ELSE IF Len(predictions) <= Len(Quantiles) THEN ScoreRaised("IndexError")
        ELSE PointScore(target, <<predictions[Len(Quantiles) + 1]>>, TRUE)

\* crps_gaussian: no test of the shapes; (target - mu) / sig broadcasts
CrpsGaussian(target, predictions, total) ==
    IF Len(predictions) # 2 THEN ScoreRaised("AssertionError")
    ELSE IF RejectsHorizon("crps_gaussian", total)
    THEN ScoreRaised("NotImplementedError")
    ELSE IF ~Broadcastable(target.shape, predictions[1].shape)
    THEN ScoreRaised("RuntimeError")
    ELSE IF ~Broadcastable(BroadcastShape(target.shape, predictions[1].shape),
                           predictions[2].shape)
    THEN ScoreRaised("RuntimeError")
    ELSE Computed

\* mape, rae, mae: no test of the shapes; target - predictions[0] broadcasts
AbsoluteScore(fn, target, predictions, total) ==
    IF RejectsHorizon(fn, total) THEN ScoreRaised("NotImplementedError")
    ELSE IF ~Broadcastable(target.shape, predictions[1].shape)
    THEN ScoreRaised("RuntimeError")
    ELSE Computed

\* the default of mase's freq
MaseFreq == 1

\* the shape of t[freq:]
SliceFrom(sh, freq) == <<IF sh[1] > freq THEN sh[1] - freq ELSE 0, sh[2], sh[3]>>

\* mase: no test of the shapes; target[freq:] - y_hat_test[freq:] broadcasts
Mase(target, predictions, total) ==
    IF RejectsHorizon("mase", total) THEN ScoreRaised("NotImplementedError")
    ELSE IF ~Broadcastable(SliceFrom(target.shape, MaseFreq),
                           SliceFrom(predictions[1].shape, MaseFreq))
    THEN ScoreRaised("RuntimeError")
    ELSE Computed

\* picp: 100 * (number of rows with lower < target <= upper) /
\* target.shape[0] per horizon step and target variable; the total is the
\* sum of these divided by target.shape[1]
Picp(target, predictions, total) ==
    IF Len(predictions) # 2 THEN ScoreRaised("AssertionError")
    ELSE
    LET upper == predictions[1]
        lower == predictions[2]
        above == BroadcastShape(target.shape, lower.shape)
        below == BroadcastShape(target.shape, upper.shape)
        sh == BroadcastShape(above, below)
        Covered(i) == At(target, i) > At(lower, i) /\ At(target, i) <= At(upper, i)
        coverage_horizon ==
            [n \in 1..(sh[2] * sh[3]) |->
                100 * Cardinality({b \in 1..sh[1] :
                    Covered(<<b, ((n - 1) \div sh[3]) + 1, ((n - 1) % sh[3]) + 1>>)})]
    IN  IF \/ ~Broadcastable(target.shape, lower.shape)
           \/ ~Broadcastable(target.shape, upper.shape)
           \/ ~Broadcastable(above, below)
        THEN ScoreRaised("RuntimeError")
        ELSE IF total
        THEN ScoreValue(<<SumSeq(coverage_horizon)>>, target.shape[1] * target.shape[2])
        ELSE ScoreValue(coverage_horizon, target.shape[1])

\* 2 / alpha for the default alpha = 0.05
TwoOverAlpha == 40

\* mutant of LargePIPenalty: the width of the interval is not counted
LargePIPenaltyNone(upper, lower) == 0

\* the summand of large_PI_penalty: y_pred_upper - y_pred_lower
LargePIPenalty(upper, lower) == upper - lower

\* t[:, h]: two of these broadcast if their first and last sizes do
SlicesBroadcast(s1, s2) ==
    /\ s1[1] = s2[1] \/ s1[1] = 1 \/ s2[1] = 1
    /\ s1[3] = s2[3] \/ s1[3] = 1 \/ s2[3] = 1

\* the indices of a[:, h] op b[:, h]
SliceIndices(a, b, h) ==
    (1..BroadcastShape(a.shape, b.shape)[1]) \X {h}
        \X (1..BroadcastShape(a.shape, b.shape)[3])

\* the element of t[:, h] at index i of a slice it is broadcast to
AtSlice(t, i) ==
    t.data[<<IF t.shape[1] = 1 THEN 1 ELSE i[1], i[2],
             IF t.shape[3] = 1 THEN 1 ELSE i[3]>>]

\* mis: per horizon step the summed width of the interval plus 2 / alpha
\* times the summed distances of the targets below and above it, divided
\* by target.shape[0]; the total is the mean over the horizon steps
Mis(target, predictions, total) ==
    IF Len(predictions) # 2 THEN ScoreRaised("AssertionError")
    ELSE
    LET upper == predictions[1]
        lower == predictions[2]
        large_PI_penalty(h) ==
            Sum([i \in SliceIndices(upper, lower, h) |->
                    LargePIPenalty(AtSlice(upper, i), AtSlice(lower, i))],
                SliceIndices(upper, lower, h))
        under_est_penalty(h) ==
            TwoOverAlpha *
            Sum([i \in SliceIndices(lower, target, h) |->
                    Positive(AtSlice(lower, i) - AtSlice(target, i))],
                SliceIndices(lower, target, h))
        over_est_penalty(h) ==
            TwoOverAlpha *
            Sum([i \in SliceIndices(target, upper, h) |->
                    Positive(AtSlice(target, i) - AtSlice(upper, i))],
                SliceIndices(target, upper, h))
        mis_horizon ==
            [h \in 1..target.shape[2] |->
                large_PI_penalty(h) + under_est_penalty(h) + over_est_penalty(h)]
    IN  IF \/ ~SlicesBroadcast(upper.shape, lower.shape)
           \/ ~SlicesBroadcast(lower.shape, target.shape)
           \/ ~SlicesBroadcast(target.shape, upper.shape)
        THEN ScoreRaised("RuntimeError")
        ELSE IF upper.shape[2] < target.shape[2] \/ lower.shape[2] < target.shape[2]
        THEN ScoreRaised("IndexError")
        ELSE IF total
        THEN ScoreValue(<<SumSeq(mis_horizon)>>, target.shape[1] * target.shape[2])
        ELSE ScoreValue(mis_horizon, target.shape[1])

\* a call of a scoring function
Score(fn, target, predictions, total) ==
    CASE fn = "nll_gauss" -> NllGauss(target, predictions, total)
      [] fn = "pinball_loss" -> PinballLoss(target, predictions, total)
      [] fn = "quantile_score" -> QuantileScore(target, predictions, total)
      [] fn = "crps_gaussian" -> CrpsGaussian(target, predictions, total)
      [] fn \in {"residuals", "mse", "rmse"} -> PointScore(target, predictions, total)
      [] fn \in {"mape", "rae", "mae"} -> AbsoluteScore(fn, target, predictions, total)
      [] fn = "mase" -> Mase(target, predictions, total)
      [] fn = "picp" -> Picp(target, predictions, total)
      [] fn = "mis" -> Mis(target, predictions, total)

\* no call yet
NoCall == [fn |-> "none", target |-> Zeros(<<1, 1, 1>>), predictions |-> <<>>,
           total |-> TRUE]
NoScore == [kind |-> "none", nums |-> <<>>, den |-> 1]
NoPrev == [call |-> NoCall, result |-> NoScore]

\* a call of a function on tensors of any shapes (the values are zeros)
ShapeCall(fn, ts, ps, total) ==
    [fn |-> fn, target |-> Zeros(ts),
     predictions |-> SubSeq(<<Zeros(ps[1]), Zeros(ps[2]), Zeros(ps[3])>>, 1, Arity(fn)),
     total |-> total]

\* a call of picp or mis on a target, an upper and a lower prediction
IntervalCall(fn, target, upper, lower, total) ==
    [fn |-> fn, target |-> target, predictions |-> <<upper, lower>>, total |-> total]

\* the function is called
ScoreApply ==
    /\ sc_result = NoScore
    /\ sc_result' = Score(sc_call.fn, sc_call.target, sc_call.predictions, sc_call.total)
    /\ UNCHANGED <<sc_call, sc_prev>>

\* lower <= lower2 <= target <= upper2 <= upper in every element, and the
\* two intervals differ
NarrowerAround(target, upper, lower, upper2, lower2) ==
    /\ \A i \in Indices(target.shape) :
           /\ lower.data[i] <= lower2.data[i]
           /\ lower2.data[i] <= target.data[i]
           /\ target.data[i] <= upper2.data[i]
           /\ upper2.data[i] <= upper.data[i]
    /\ <<upper2, lower2>> # <<upper, lower>>

\* a bound of an interval moved by one step in one element, or left as it is
Narrowed(bound, i, moves, step) ==
    IF moves THEN [bound EXCEPT !.data[i] = @ + step] ELSE bound

\* mis has returned a value for a target and an interval of its shape
MisReturned ==
    /\ sc_call.fn = "mis"
    /\ sc_result.kind = "value"
    /\ sc_prev = NoPrev
    /\ sc_call.target.shape \in SmallShapes
    /\ SameShape(sc_call.target, sc_call.predictions[1])
    /\ SameShape(sc_call.target, sc_call.predictions[2])

\* after mis has returned a value for an interval, the caller calls it again
\* with a narrower interval around the same target
MisNarrower(upper2, lower2) ==
    /\ MisReturned
    /\ NarrowerAround(sc_call.target, sc_call.predictions[1], sc_call.predictions[2],
                      upper2, lower2)
    /\ sc_prev' = [call |-> sc_call, result |-> sc_result]
    /\ sc_call' = [sc_call EXCEPT !.predictions = <<upper2, lower2>>]
    /\ sc_result' = Score("mis", sc_call.target, <<upper2, lower2>>, sc_call.total)

ScoreParked ==
    /\ sc_call = NoCall
    /\ sc_result = NoScore
    /\ sc_prev = NoPrev

\* ------------------------------ seeded passes (utils/tensorloader.py)
\* no pass has run to its end yet
NoPass == [draw |-> None, batches |-> <<>>]

\* the record of a pass over the loader: the state of the global RNG when
\* __iter__ was called, and the batches that followed
PassRecord(draw, batches) == [draw |-> draw, batches |-> batches]

\* np.random.seed(seed) by the caller of the loader, between two passes:
\* np.random.permutation in __iter__ draws from this global state
Seed(seed) ==
    /\ ld_obj = "alive"
    /\ ld_result.kind = "StopIteration"
    /\ rng' = seed
    /\ UNCHANGED <<ld_obj, ld_args, ld_attrs, ld_dataset, ld_tensors,
                   ld_batch_size, ld_shuffle, ld_drop_last, ld_permutation,
                   ld_batch_index, ld_result, ld_yielded, ld_consumed, ld_draw>>

\* for batch in loader: the caller starts a pass; if the pass before ran to
\* its end (StopIteration), the caller keeps what that pass yielded
PassIter ==
    /\ Iter
    /\ sd_prev' = IF ld_result.kind = "StopIteration"
                  THEN PassRecord(ld_draw, ld_yielded) ELSE sd_prev

SeedParked == sd_prev = NoPass

\* ---------------------------------------------------------- specifications
\* a call of train(): any max_epochs, any loaders, any patience
TrainInitState ==
    /\ TrainStart
    /\ t_max_epochs \in 0..MaxEpochs
    /\ t_n_train \in 0..MaxBatches
    /\ t_n_val \in 0..MaxBatches
    /\ \E p \in 1..MaxPatience : EarlyStoppingNew(p)
    /\ LoaderParked
    /\ MainParked
    /\ SearchParked
    /\ ScoreParked
    /\ SeedParked

TrainStep ==
    \/ TrainBegin /\ UNCHANGED <<loaderVars, mainVars, searchVars, scoreVars, seedVars>>
    \/ TrainBatch /\ UNCHANGED <<loaderVars, mainVars, searchVars, scoreVars, seedVars>>
    \/ ValidationBatch /\ UNCHANGED <<loaderVars, mainVars, searchVars, scoreVars, seedVars>>
    \/ EarlyStoppingStep /\ UNCHANGED <<loaderVars, mainVars, searchVars, scoreVars, seedVars>>
    \/ \E score \in 0..MaxLoss : TestScoring(score) /\ UNCHANGED <<loaderVars, mainVars, searchVars, scoreVars, seedVars>>
    \/ \E ex \in BOOLEAN, ti \in BOOLEAN, tb \in BOOLEAN :
           TrainFinish(ex, ti, tb) /\ UNCHANGED <<loaderVars, mainVars, searchVars, scoreVars, seedVars>>

SpecTrain == TrainInitState /\ [][TrainStep]_vars

\* train() runs in one thread: a step that can be taken is taken
SpecTrainFair == SpecTrain /\ WF_vars(TrainStep)

\* the loader's callers start from any seed of the global RNG
LoaderInitState ==
    /\ LoaderStart
    /\ rng \in 0..(RngStates - 1)
    /\ TrainParked
    /\ MainParked
    /\ SearchParked
    /\ ScoreParked
    /\ SeedParked


LoaderStep ==
    \/ \E n \in 0..MaxN, bs \in 1..MaxBatchSize, sh \in BOOLEAN, dl \in BOOLEAN :
           Construct(n, bs, sh, dl) /\ UNCHANGED <<trainVars, mainVars, searchVars, scoreVars, seedVars>>
    \/ \E hh \in 1..MaxHorizon, fh \in 1..MaxHorizon, k \in 0..(MaxN - 1),
          bs \in 1..MaxBatchSize, sh \in BOOLEAN, dl \in BOOLEAN :
           MakeDataloader(hh + fh + k, hh, fh, bs, sh, dl) /\ UNCHANGED <<trainVars, mainVars, searchVars, scoreVars, seedVars>>
    \/ Iter /\ UNCHANGED <<trainVars, mainVars, searchVars, scoreVars, seedVars>>
    \/ LoaderNext /\ UNCHANGED <<trainVars, mainVars, searchVars, scoreVars, seedVars>>

SpecLoader == LoaderInitState /\ [][LoaderStep]_vars

\* a run of either main. source/train.py stores the best score with the
\* model it saved, so the two are there together; the configuration of
\* src/train.py holds neither best_score nor best_loss nor exploration.
\* Hyperparameter values are only copied, never compared or computed with,
\* so the stored one is taken to be 0 and the search draws any of 0..MaxParam.
MainInitState ==
    /\ MainStart
    /\ m_variant \in {"source", "src"}
    /\ config_file \in Configs
    /\ config_file.param = 0
    /\ PAR = ReadConfig(config_file)
    /\ ARGS_ci \in BOOLEAN
    /\ n_trials \in 1..MaxTrials
    /\ model_file \in {None} \cup 0..MaxScore
    /\ IF m_variant = "source"
       THEN /\ model_file = config_file.best_score
            /\ ~config_file.exploration => (n_trials = 1 /\ ~ARGS_ci)
       ELSE /\ ~config_file.exploration
            /\ config_file.best_score = None
            /\ config_file.best_loss = None
            /\ ~ARGS_ci
            /\ n_trials = 1
    /\ LoaderParked
    /\ TrainParked
    /\ SearchParked
    /\ ScoreParked
    /\ SeedParked

MainStep ==
    \/ MainBegin /\ UNCHANGED <<loaderVars, trainVars, searchVars, scoreVars, seedVars>>
    \/ \E param \in 0..MaxParam, val_loss \in 0..MaxValLoss, pruned \in BOOLEAN :
           SearchTrial(param, val_loss, pruned) /\ UNCHANGED <<loaderVars, trainVars, searchVars, scoreVars, seedVars>>
    \/ \E overwrite \in BOOLEAN :
           SearchEnd(overwrite) /\ UNCHANGED <<loaderVars, trainVars, searchVars, scoreVars, seedVars>>
    \/ \E raises \in BOOLEAN, loss \in 0..MaxValLoss, new_score \in 0..MaxScore :
           FinalTrain(raises, loss, new_score) /\ UNCHANGED <<loaderVars, trainVars, searchVars, scoreVars, seedVars>>
    \/ \E overwrite \in BOOLEAN, turn_off \in BOOLEAN :
           Decide(overwrite, turn_off) /\ UNCHANGED <<loaderVars, trainVars, searchVars, scoreVars, seedVars>>
    \/ Finally /\ UNCHANGED <<loaderVars, trainVars, searchVars, scoreVars, seedVars>>
    \/ MainBeginSrc /\ UNCHANGED <<loaderVars, trainVars, searchVars, scoreVars, seedVars>>
    \/ \E raises \in BOOLEAN, loss \in 0..MaxValLoss, new_score \in 0..MaxScore :
           Fit(raises, loss, new_score) /\ UNCHANGED <<loaderVars, trainVars, searchVars, scoreVars, seedVars>>
    \/ \E loads \in BOOLEAN : LoadModel(loads) /\ UNCHANGED <<loaderVars, trainVars, searchVars, scoreVars, seedVars>>
    \/ Select /\ UNCHANGED <<loaderVars, trainVars, searchVars, scoreVars, seedVars>>
    \/ SaveCurrentModel /\ UNCHANGED <<loaderVars, trainVars, searchVars, scoreVars, seedVars>>
    \/ WriteConfigSrc /\ UNCHANGED <<loaderVars, trainVars, searchVars, scoreVars, seedVars>>
    \/ FinallySrc /\ UNCHANGED <<loaderVars, trainVars, searchVars, scoreVars, seedVars>>
    \/ \E in_trial \in BOOLEAN, param \in 0..MaxParam :
           InterruptSearch(in_trial, param) /\ UNCHANGED <<loaderVars, trainVars, searchVars, scoreVars, seedVars>>
    \/ \E in_train \in BOOLEAN :
           InterruptFinalTrain(in_train) /\ UNCHANGED <<loaderVars, trainVars, searchVars, scoreVars, seedVars>>
    \/ \E stage \in DecideStages, overwrite \in BOOLEAN :
           InterruptDecide(stage, overwrite) /\ UNCHANGED <<loaderVars, trainVars, searchVars, scoreVars, seedVars>>
    \/ InterruptSrc /\ UNCHANGED <<loaderVars, trainVars, searchVars, scoreVars, seedVars>>

SpecMain == MainInitState /\ [][MainStep]_vars

\* main of source/train.py at the call of study.optimize with as many
\* parallel jobs as trials: exploration is on, PAR["trial_id"] is 0
SearchInitState ==
    /\ SearchParked
    /\ ScoreParked
    /\ SeedParked
    /\ m_variant = "source"
    /\ m_pc = "search"
    /\ m_exit = "running"
    /\ m_raised_at = ""
    /\ config_file = [exploration |-> TRUE, best_score |-> None,
                      best_loss |-> None, param |-> 0]
    /\ PAR = ReadConfig(config_file)
    /\ ARGS_ci = FALSE
    /\ n_trials = Cardinality(Jobs)
    /\ study = NewStudy
    /\ min_val_loss = MinValLoss(PAR.best_loss)
    /\ min_net = None
    /\ log_df = None
    /\ m_net = [loss |-> 0, score |-> 0, param |-> 0]
    /\ score_sofar = Inf
    /\ ref_model = "unset"
    /\ model_wrap = "new"
    /\ model_file = None
    /\ written = NothingWritten
    /\ LoaderParked
    /\ TrainParked

SearchStep ==
    \/ \E j \in Jobs, param \in 0..MaxParam :
           UpdatePar(j, param) /\ UNCHANGED <<loaderVars, trainVars, searchFrame, scoreVars, seedVars>>
    \/ \E j \in Jobs : ReadTrialId(j) /\ UNCHANGED <<loaderVars, trainVars, searchFrame, scoreVars, seedVars>>
    \/ \E j \in Jobs : WriteTrialId(j) /\ UNCHANGED <<loaderVars, trainVars, searchFrame, scoreVars, seedVars>>
    \/ \E j \in Jobs : BuildTrial(j) /\ UNCHANGED <<loaderVars, trainVars, searchFrame, scoreVars, seedVars>>
    \/ \E j \in Jobs, val_loss \in 0..MaxValLoss :
           TrainTrial(j, val_loss) /\ UNCHANGED <<loaderVars, trainVars, searchFrame, scoreVars, seedVars>>
    \/ \E j \in Jobs, should_prune \in BOOLEAN :
           EndTrial(j, should_prune) /\ UNCHANGED <<loaderVars, trainVars, searchFrame, scoreVars, seedVars>>

SpecSearch == SearchInitState /\ [][SearchStep]_vars

\* a caller of the scoring library: one call with any arguments, and for
\* mis a second call with the interval narrowed by one step in one element
\* (every narrower interval is reached by a chain of such steps, each of
\* which starts from a call that is itself a first call)
ScoreInitState ==
    /\ \/ \E fn \in ScoringFunctions, ts \in Shapes, ps \in Shapes \X Shapes \X Shapes,
             total \in BOOLEAN :
              sc_call = ShapeCall(fn, ts, ps, total)
       \/ \E fn \in {"picp", "mis"}, sh \in SmallShapes, total \in BOOLEAN :
              \E t \in Tensors(sh), u \in Tensors(sh), l \in Tensors(sh) :
                  sc_call = IntervalCall(fn, t, u, l, total)
    /\ sc_result = NoScore
    /\ sc_prev = NoPrev
    /\ LoaderParked
    /\ TrainParked
    /\ MainParked
    /\ SearchParked
    /\ SeedParked

ScoreStep ==
    \/ ScoreApply /\ UNCHANGED <<loaderVars, trainVars, mainVars, searchVars, seedVars>>
    \/ /\ MisReturned
       /\ \E i \in Indices(sc_call.target.shape), side \in {"upper", "lower"} :
              MisNarrower(Narrowed(sc_call.predictions[1], i, side = "upper", -1),
                          Narrowed(sc_call.predictions[2], i, side = "lower", 1))
       /\ UNCHANGED <<loaderVars, trainVars, mainVars, searchVars, seedVars>>

SpecScore == ScoreInitState /\ [][ScoreStep]_vars

\* the end-to-end scenario: a table of 200 rows, history_horizon = 24,
\* forecast_horizon = 12, batch_size = 8
Scenario ==
    [table |-> 200, history_horizon |-> 24, forecast_horizon |-> 12,
     batch_size |-> 8]

\* the valid window parameters: the table holds at least one window
WindowInputs ==
    {[table |-> hh + fh + k, history_horizon |-> hh, forecast_horizon |-> fh,
      batch_size |-> bs] :
        hh \in 1..MaxWindow, fh \in 1..MaxWindow, k \in 0..(MaxN - 1),
        bs \in 1..MaxBatchSize}
    \cup {Scenario}

\* make_dataloader(..., shuffle=False) on a table, and passes over the
\* loader it returns
WindowsInitState ==
    /\ LoaderStart
    /\ rng = 0
    /\ TrainParked
    /\ MainParked
    /\ SearchParked
    /\ ScoreParked
    /\ SeedParked

WindowsStep ==
    \/ \E in \in WindowInputs, dl \in BOOLEAN :
           /\ MakeDataloader(in.table, in.history_horizon, in.forecast_horizon,
                             in.batch_size, FALSE, dl)
           /\ UNCHANGED <<trainVars, mainVars, searchVars, scoreVars, seedVars>>
    \/ Iter /\ UNCHANGED <<trainVars, mainVars, searchVars, scoreVars, seedVars>>
    \/ LoaderNext /\ UNCHANGED <<trainVars, mainVars, searchVars, scoreVars, seedVars>>

SpecWindows == WindowsInitState /\ [][WindowsStep]_vars

\* a caller builds a shuffling loader and runs passes over it; after a pass
\* it may set the global RNG back to the state the pass started from
SeededInitState ==
    /\ LoaderStart
    /\ rng \in 0..(RngStates - 1)
    /\ TrainParked
    /\ MainParked
    /\ SearchParked
    /\ ScoreParked
    /\ SeedParked

SeededStep ==
    \/ \E n \in 0..MaxN, bs \in 1..MaxBatchSize :
           /\ Construct(n, bs, TRUE, TRUE)
           /\ UNCHANGED <<trainVars, mainVars, searchVars, scoreVars, seedVars>>
    \/ Seed(ld_draw) /\ UNCHANGED <<trainVars, mainVars, searchVars, scoreVars, seedVars>>
    \/ PassIter /\ UNCHANGED <<trainVars, mainVars, searchVars, scoreVars>>
    \/ LoaderNext /\ UNCHANGED <<trainVars, mainVars, searchVars, scoreVars, seedVars>>

SpecSeeded == SeededInitState /\ [][SeededStep]_vars

\* runs of source/train.py on one model, each starting from the
\* configuration file the run before it left; a search has one trial
RunsInitState ==
    /\ MainStart
    /\ m_variant = "source"
    /\ config_file \in Configs
    /\ config_file.param = 0
    /\ model_file = config_file.best_score
    /\ PAR = ReadConfig(config_file)
    /\ ARGS_ci \in BOOLEAN
    /\ n_trials = 1
    /\ LoaderParked
    /\ TrainParked
    /\ SearchParked
    /\ ScoreParked
    /\ SeedParked

RunsStep ==
    \/ MainBegin /\ UNCHANGED <<loaderVars, trainVars, searchVars, scoreVars, seedVars>>
    \/ \E param \in 0..MaxParam, val_loss \in 0..MaxValLoss, pruned \in BOOLEAN :
           SearchTrial(param, val_loss, pruned) /\ UNCHANGED <<loaderVars, trainVars, searchVars, scoreVars, seedVars>>
    \/ \E overwrite \in BOOLEAN :
           SearchEnd(overwrite) /\ UNCHANGED <<loaderVars, trainVars, searchVars, scoreVars, seedVars>>
    \/ \E raises \in BOOLEAN, loss \in 0..MaxValLoss, new_score \in 0..MaxScore :
           FinalTrain(raises, loss, new_score) /\ UNCHANGED <<loaderVars, trainVars, searchVars, scoreVars, seedVars>>
    \/ \E overwrite \in BOOLEAN, turn_off \in BOOLEAN :
           Decide(overwrite, turn_off) /\ UNCHANGED <<loaderVars, trainVars, searchVars, scoreVars, seedVars>>
    \/ Finally /\ UNCHANGED <<loaderVars, trainVars, searchVars, scoreVars, seedVars>>
    \/ \E in_trial \in BOOLEAN, param \in 0..MaxParam :
           InterruptSearch(in_trial, param) /\ UNCHANGED <<loaderVars, trainVars, searchVars, scoreVars, seedVars>>
    \/ \E in_train \in BOOLEAN :
           InterruptFinalTrain(in_train) /\ UNCHANGED <<loaderVars, trainVars, searchVars, scoreVars, seedVars>>
    \/ \E stage \in DecideStages, overwrite \in BOOLEAN :
           InterruptDecide(stage, overwrite) /\ UNCHANGED <<loaderVars, trainVars, searchVars, scoreVars, seedVars>>
    \/ NextRun /\ UNCHANGED <<loaderVars, trainVars, searchVars, scoreVars, seedVars>>

SpecRuns == RunsInitState /\ [][RunsStep]_vars

\* ================================================================ claims
\* the concatenation of the rows of a sequence of sequences
RECURSIVE Flatten(_)
Flatten(rows) ==
    IF Len(rows) = 0 THEN <<>> ELSE Head(rows) \o Flatten(Tail(rows))

\* the elements of a sequence
Range(s) == {s[k] : k \in DOMAIN s}

\* a pass has run to its end: the last __next__ raised StopIteration
PassEnded == ld_obj = "alive" /\ ld_result.kind = "StopIteration"

\* train() is inside its epoch loop
InLoop == t_pc \in {"train_batches", "validation_batches", "early_stopping"}

\* train() has left its epoch loop, or skipped it
PastLoop == t_pc \in {"test_scoring", "logging", "done"} \/ t_scored_net # -1

\* the test score has been computed
TestScored == t_scored_net # -1

\* the loop was left on a stop of the early-stopping controller
StoppedEarly == PastLoop /\ es_early_stop

\* the least element of a non-empty sequence of numbers
MinOf(s) == CHOOSE x \in Range(s) : \A y \in Range(s) : x <= y

IsConstant(s) == \A i \in DOMAIN s : s[i] = s[1]

IsStrictlyDecreasing(s) == \A i \in DOMAIN s : i > 1 => s[i] < s[i - 1]

\* C1: the epoch loop runs at most max_epochs epochs, is left at the end of
\* the first epoch in which the controller reports stop and otherwise only
\* after max_epochs epochs, and from the loop (or from a skipped loop, for
\* max_epochs = 0) the test scoring is always reached.
C1_EpochLoopTerminates ==
    /\ [](/\ t_epoch <= t_max_epochs
          /\ Len(t_losses) <= t_epoch
          /\ es_early_stop => ~InLoop
          /\ (PastLoop /\ ~es_early_stop) => Len(t_losses) = t_max_epochs)
    /\ ((InLoop \/ t_pc = "test_scoring") ~> TestScored)

C1_Witness ==
    /\ TestScored
    /\ es_early_stop
    /\ Len(t_losses) = 2
    /\ t_max_epochs = 3

\* C2: after a stop the parameters in the model, and those train() returns,
\* are the checkpoint's: those of the first epoch with the least validation
\* loss of the run, which is never the last epoch run.
C2_StopReloadsBest ==
    StoppedEarly =>
        /\ t_net = es_checkpoint
        /\ t_net \in 1..(Len(t_losses) - 1)
        /\ t_losses[t_net] = MinOf(t_losses)
        /\ \A e \in 1..(t_net - 1) : t_losses[e] > t_losses[t_net]
        /\ t_pc = "done" => t_result.net = t_net

C2_Witness ==
    /\ StoppedEarly
    /\ t_pc = "done"
    /\ es_patience = 1
    /\ t_losses = <<1, 0, 1>>
    /\ t_result.net = 2

\* C3: on a constant sequence of validation losses the controller has
\* stopped exactly when `patience` calls followed the first one: every call
\* after the first is counted, and the stop comes with call patience + 1.
C3_ConstantStopsAtPatience ==
    (Len(t_losses) >= 1 /\ IsConstant(t_losses)) =>
        /\ es_counter = Len(t_losses) - 1
        /\ es_early_stop <=> (Len(t_losses) - 1 = es_patience)
        /\ Len(t_losses) - 1 <= es_patience

C3_Witness ==
    /\ StoppedEarly
    /\ es_patience = 2
    /\ t_losses = <<1, 1, 1>>
    /\ t_max_epochs = 3

\* C4: on a strictly decreasing sequence of validation losses the controller
\* never reports stop, and the loop is left only after max_epochs epochs.
C4_DecreasingNeverStops ==
    IsStrictlyDecreasing(t_losses) =>
        /\ ~es_early_stop
        /\ es_counter = 0
        /\ PastLoop => Len(t_losses) = t_max_epochs

C4_Witness ==
    /\ t_pc = "done"
    /\ es_patience = 1
    /\ t_losses = <<2, 1, 0>>
    /\ t_max_epochs = 3

\* C5: len(loader) is N // batch_size; a pass yields at most that many
\* batches and exactly that many once StopIteration is raised, each batch
\* holds batch_size windows, and N < batch_size yields no batch.
C5_LenAndFullBatches ==
    ld_obj = "alive" =>
        LET N == ld_args.n
            B == ld_args.batch_size
        IN  /\ LoaderLen(ld_dataset, ld_batch_size) = N \div B
            /\ Len(ld_yielded) <= N \div B
            /\ \A k \in DOMAIN ld_yielded : Len(ld_yielded[k]) = B
            /\ PassEnded => Len(ld_yielded) = N \div B
            /\ N < B => ld_yielded = <<>>
            /\ ld_result.kind \notin {"ValueError", "IndexError"}

C5_Witness ==
    /\ PassEnded
    /\ ld_args.n = 3 /\ ld_args.batch_size = 1
    /\ Len(ld_yielded) = 3

\* C6: a constructor call with drop_last=False, made directly or through
\* make_dataloader, raises NotImplementedError, sets no attribute of the
\* loader and leaves no object that could yield a batch.
C6_DropLastFalseRaises ==
    (ld_args.via # "none" /\ ~ld_args.drop_last) =>
        /\ ld_obj = "failed"
        /\ ld_result = Raised("NotImplementedError")
        /\ ld_attrs = {}
        /\ ld_yielded = <<>>
        /\ ~ENABLED Iter
        /\ ~ENABLED LoaderNext

C6_Witness ==
    /\ ld_args.via = "make_dataloader"
    /\ ~ld_args.drop_last
    /\ ld_result.kind = "NotImplementedError"

\* C7: without shuffling the k-th batch of a pass (k from 0) is the windows
\* k*batch_size .. k*batch_size+batch_size-1 in increasing order, and none
\* of the trailing N mod batch_size windows is yielded.
C7_UnshuffledBatchesInOrder ==
    (ld_obj = "alive" /\ ~ld_args.shuffle) =>
        LET N == ld_args.n
            B == ld_args.batch_size
        IN  /\ \A k \in DOMAIN ld_yielded :
                   ld_yielded[k] = [j \in 1..B |-> (k - 1) * B + (j - 1)]
            /\ \A i \in Range(Flatten(ld_yielded)) : i < N - (N % B)

C7_Witness ==
    /\ PassEnded
    /\ ~ld_args.shuffle
    /\ ld_args.n = 3 /\ ld_args.batch_size = 2
    /\ ld_yielded = << <<0, 1>> >>

\* C8: with shuffling the indices of a pass are drawn without replacement:
\* each is in 0..N-1, none is yielded twice, and a pass that ran to its end
\* yielded batch_size * (N // batch_size) distinct indices.
C8_ShuffledWithoutReplacement ==
    (ld_obj = "alive" /\ ld_args.shuffle) =>
        LET N    == ld_args.n
            B    == ld_args.batch_size
            flat == Flatten(ld_yielded)
        IN  /\ Range(flat) \subseteq 0..(N - 1)
            /\ Cardinality(Range(flat)) = Len(flat)
            /\ PassEnded => Cardinality(Range(flat)) = B * (N \div B)

C8_Witness ==
    /\ PassEnded
    /\ ld_args.shuffle
    /\ ld_args.n = 4 /\ ld_args.batch_size = 2
    /\ ld_yielded = << <<2, 0>>, <<3, 1>> >>

\* C9: an __iter__ call made after j batches of the pass were consumed
\* restarts the position at zero and installs the permutation drawn from
\* the RNG state of that call, so that len(loader) batches follow before
\* StopIteration.
C9_IterRestartsThePass ==
    (ld_obj = "alive" /\ "batch_index" \in ld_attrs) =>
        LET N == ld_args.n
            B == ld_args.batch_size
        IN  /\ ld_consumed \in 0..(N \div B)
            /\ ld_batch_index = Len(ld_yielded)
            /\ ld_yielded = SubSeq(ld_permutation, 1, Len(ld_yielded))
            /\ Flatten(ld_permutation) =
                   IF ld_args.shuffle
                   THEN Take(RandomPermutation(N, ld_draw), B * (N \div B))
                   ELSE Arange(B * (N \div B))
            /\ ld_args.shuffle => rng = RngAdvance(ld_draw)
            /\ PassEnded => Len(ld_yielded) = N \div B

C9_Witness ==
    /\ PassEnded
    /\ ld_args.shuffle
    /\ ld_consumed = 1
    /\ ld_args.n = 4 /\ ld_args.batch_size = 2
    /\ Len(ld_yielded) = 2

\* main has run to its end without an exception
CompletedNormally == m_pc = "done" /\ m_exit = "normal"

\* C10: at the end of a run that completes normally, the trained model and
\* the configuration have been written if the new test score is strictly
\* lower than the best score so far (+infinity without one), and neither
\* has been written if it is equal or higher.
C10_PersistsIffImproved ==
    CompletedNormally =>
        IF m_net.score < score_sofar
        THEN written.model /\ written.config /\ model_file = m_net.score
        ELSE ~written.model /\ ~written.config

\* the statement of C10 for the main of source/train.py alone
PersistsIffImprovedSource == m_variant = "source" => C10_PersistsIffImproved

\* main has ended after a KeyboardInterrupt that its except clause caught
InterruptedRun == m_pc = "done" /\ m_raised_at # ""

\* the model that main held as its accepted improvement when the interrupt
\* came: min_net (source/train.py); the new model once select_model has kept
\* it or found no reference to compare it to (src/train.py)
AcceptedAtInterrupt ==
    IF m_variant = "source"
    THEN min_net
    ELSE IF m_raised_at \in {"save_current_model", "write_config"}
            /\ model_wrap = "new"
         THEN m_net.score
         ELSE None

\* C11: a KeyboardInterrupt raised in the search phase, the final training
\* or the improvement decision does not leave main; after it the log is
\* written if there is a log table, and the model accepted as the
\* improvement at the time of the interrupt is saved.
C11_InterruptCaughtAndSaved ==
    InterruptedRun =>
        /\ m_exit = "interrupt"
        /\ log_df # None => written.log
        /\ AcceptedAtInterrupt # None =>
               written.model /\ model_file = AcceptedAtInterrupt

\* the statement of C11 for the main of source/train.py alone
InterruptCaughtAndSavedSource ==
    m_variant = "source" => C11_InterruptCaughtAndSaved

\* a run of source/train.py interrupted after min_net = net
InterruptedAfterAcceptance ==
    /\ InterruptedRun
    /\ m_variant = "source"
    /\ m_raised_at = "decide"
    /\ min_net # None
    /\ written.model

\* C12: with parallel jobs no trial reads state that another trial wrote:
\* the datasets and the model of a trial are built from the hyperparameters
\* that this trial wrote to PAR, and its training runs under the trial id
\* that this trial wrote.
C12_TrialsAreIsolated ==
    \A j \in Jobs :
        /\ job[j].built # None => job[j].built = job[j].param
        /\ job[j].used_id # None => job[j].used_id = job[j].tid + 1

\* the jobs whose call of search_params has ended
EndedJobs == {j \in Jobs : job[j].pc = "done"}

\* C13: a call of the trial objective ends in one of two outcomes. It asks
\* should_prune() once, after train() has returned; if the answer is yes it
\* raises TrialPruned and yields no value, else it returns the numeric
\* validation loss. The study holds a value for the returned trials only.
C13_PrunedOrValue ==
    /\ \A j \in Jobs :
           IF j \in EndedJobs
           THEN /\ job[j].val_loss \in 0..MaxValLoss
                /\ job[j].should_prune \in {"yes", "no"}
                /\ job[j].should_prune = "yes" =>
                       job[j].result = [kind |-> "pruned", value |-> None]
                /\ job[j].should_prune = "no" =>
                       job[j].result = [kind |-> "value", value |-> job[j].val_loss]
           ELSE /\ job[j].should_prune = "unasked"
                /\ job[j].result.kind = "none"
    /\ study.trials = Cardinality(EndedJobs)
    /\ study.complete = Cardinality({j \in EndedJobs : job[j].should_prune = "no"})
    /\ study.complete = 0 => study.best_value = Inf

C13_Witness ==
    /\ EndedJobs = Jobs
    /\ job["job1"].result.kind = "pruned"
    /\ job["job1"].val_loss = 0
    /\ job["job2"].result = [kind |-> "value", value |-> 1]
    /\ study.best_value = 1

\* C14: the validation loss that train() returns is the least of the
\* validation losses of the epochs it ran, one per epoch (and +infinity if
\* it ran no epoch).
C14_ReturnsMinValidationLoss ==
    t_pc = "done" =>
        /\ t_result.kind = "returned"
        /\ Len(t_losses) = t_epoch
        /\ t_result.val_loss = IF t_losses = <<>> THEN Inf ELSE MinOf(t_losses)

C14_Witness ==
    /\ t_pc = "done"
    /\ t_losses = <<1, 0, 2>>
    /\ t_result.val_loss = 0

\* a scoring function has been called and has ended
ScoreEnded == sc_result # NoScore

\* some prediction of the call has a shape other than the target's
MismatchedCall ==
    \E k \in 1..Len(sc_call.predictions) :
        ~SameShape(sc_call.target, sc_call.predictions[k])

\* C15: a call of a scoring function in which some prediction's shape
\* differs from the target's shape ends in an error; no scoring function
\* returns a value computed from mismatched shapes.
C15_ShapeMismatchIsError ==
    (ScoreEnded /\ MismatchedCall) => sc_result.kind # "value"

\* the functions the claim C16 lists as having no per-horizon decomposition
NoHorizonFunctions ==
    {"pinball_loss", "quantile_score", "crps_gaussian", "mape", "mase", "rae", "mae"}

\* C16: each of pinball_loss, quantile_score, crps_gaussian, mape, mase,
\* rae and mae, called with total=False on predictions of the expected
\* number and of the target's shape, raises NotImplementedError and returns
\* no value.
C16_NoHorizonScoreRaises ==
    (/\ ScoreEnded
     /\ sc_call.fn \in NoHorizonFunctions
     /\ ~sc_call.total
     /\ ~MismatchedCall) =>
        sc_result = ScoreRaised("NotImplementedError")

C16_Witness ==
    /\ sc_call.fn = "quantile_score"
    /\ ~sc_call.total
    /\ Len(sc_call.predictions) = 3
    /\ ~MismatchedCall
    /\ sc_call.target.shape = <<2, 1, 1>>
    /\ sc_result.kind = "NotImplementedError"

\* every target lies strictly between its lower and its upper prediction
AllStrictlyInside ==
    \A i \in Indices(sc_call.target.shape) :
        /\ sc_call.predictions[2].data[i] < sc_call.target.data[i]
        /\ sc_call.target.data[i] < sc_call.predictions[1].data[i]

\* C17: for a target of shape [B, H, K] and upper and lower predictions of
\* that shape, picp with total=True returns a value within [0, 100], and
\* exactly 100 when every target lies strictly between its lower and upper.
C17_PicpIsPercentage ==
    (/\ ScoreEnded
     /\ sc_call.fn = "picp"
     /\ sc_call.total
     /\ ~MismatchedCall) =>
        /\ sc_result.kind = "value"
        /\ 0 <= sc_result.nums[1]
        /\ sc_result.nums[1] <= 100 * sc_result.den
        /\ AllStrictlyInside => sc_result.nums[1] = 100 * sc_result.den

\* C18: mis is non-negative for every target and every pair of upper and
\* lower predictions, and replacing the interval by a strictly narrower one
\* that still contains every target strictly decreases the total mis (and,
\* per horizon step, increases none of the values and decreases one).
C18_MisNonNegativeAndDecreasing ==
    /\ (sc_call.fn = "mis" /\ sc_result.kind = "value") =>
           \A k \in 1..Len(sc_result.nums) : sc_result.nums[k] >= 0
    /\ sc_prev # NoPrev =>
           /\ sc_result.kind = "value"
           /\ sc_result.den = sc_prev.result.den
           /\ Len(sc_result.nums) = Len(sc_prev.result.nums)
           /\ SumSeq(sc_result.nums) < SumSeq(sc_prev.result.nums)
           /\ \A k \in 1..Len(sc_result.nums) :
                  sc_result.nums[k] <= sc_prev.result.nums[k]

C18_Witness ==
    /\ sc_prev # NoPrev
    /\ sc_call.total
    /\ sc_call.target.shape = <<2, 1, 1>>
    /\ sc_prev.result.nums = <<4>>
    /\ sc_result.nums = <<3>>
    /\ sc_result.den = 2

\* make_dataloader has built the dataset of a table
Windowed == ld_args.via = "make_dataloader"

\* C19: for valid window parameters the encoder, decoder and target tensors
\* that make_dataloader builds have the same leading dimension N, which is
\* the length of the dataset, and the decoder and target rows of window i
\* begin history_horizon rows after the first row of encoder window i.
C19_WindowsAligned ==
    Windowed =>
        /\ Len(ld_tensors.inputs1) = Len(ld_tensors.targets)
        /\ Len(ld_tensors.inputs2) = Len(ld_tensors.targets)
        /\ Len(ld_tensors.targets) = ld_args.n
        /\ ld_args.n = ld_args.table - ld_args.history_horizon
                           - ld_args.forecast_horizon + 1
        /\ \A i \in 1..Len(ld_tensors.targets) :
               /\ ld_tensors.inputs1[i] = i - 1
               /\ ld_tensors.inputs2[i] = ld_tensors.inputs1[i] + ld_args.history_horizon
               /\ ld_tensors.targets[i] = ld_tensors.inputs1[i] + ld_args.history_horizon

C19_Witness ==
    /\ Windowed
    /\ ld_obj = "alive"
    /\ ld_args.table = 7
    /\ ld_args.history_horizon = 3
    /\ ld_args.forecast_horizon = 2
    /\ ld_tensors = CustomTensorData(<<0, 1, 2>>, <<3, 4, 5>>, <<3, 4, 5>>)

\* make_dataloader was called with the arguments of the scenario
InScenario ==
    /\ Windowed
    /\ ld_args.table = Scenario.table
    /\ ld_args.history_horizon = Scenario.history_horizon
    /\ ld_args.forecast_horizon = Scenario.forecast_horizon
    /\ ld_args.batch_size = Scenario.batch_size
    /\ ~ld_args.shuffle

\* C20: a table of 200 rows with history_horizon = 24, forecast_horizon = 12,
\* batch_size = 8 and shuffle = False gives N = 165 windows and 20 batches in
\* a pass, and the windows that a pass leaves out are the last five, 160..164.
C20_ScenarioCounts ==
    InScenario =>
        /\ ld_args.n = 165
        /\ Len(ld_tensors.targets) = 165
        /\ ld_obj = "alive" =>
               /\ ld_dataset = 165
               /\ LoaderLen(ld_dataset, ld_batch_size) = 20
        /\ PassEnded =>
               /\ Len(ld_yielded) = 20
               /\ \A k \in 1..Len(ld_yielded) : Len(ld_yielded[k]) = 8
               /\ (0..164) \ Range(Flatten(ld_yielded)) = 160..164

C20_Witness ==
    /\ InScenario
    /\ PassEnded
    /\ ld_batch_index = 20
    /\ ld_yielded[20] = <<152, 153, 154, 155, 156, 157, 158, 159>>

\* the load of the previously saved model has failed and left no baseline
NoBaseline == m_variant = "src" /\ ref_model = "none"

\* C21: when loading the previously saved model fails, because the file is
\* absent or because the load raises any other exception, the run goes on
\* without a baseline: the load step leaves main in the try block with
\* ref_model_1 = None, no comparison is made (the new model stays the
\* current one), and a run that is not interrupted writes the new model and
\* the configuration.
C21_LoadFailureMeansNoBaseline ==
    /\ [][(m_variant = "src" /\ m_pc = "load_model" /\ m_exit' # "interrupt") =>
              /\ m_pc' = "select_model"
              /\ m_exit' = "running"
              /\ ref_model' \in {"loaded", "none"}
              /\ model_file = None => ref_model' = "none"]_vars
    /\ [](NoBaseline =>
              /\ m_exit \in {"running", "normal", "interrupt"}
              /\ model_wrap = "new"
              /\ score_sofar = Inf
              /\ written.model => model_file = m_net.score
              /\ CompletedNormally =>
                     written.model /\ written.config /\ config_file = WriteConfig(PAR))

C21_Witness ==
    /\ NoBaseline
    /\ CompletedNormally
    /\ written.model
    /\ written.config
    /\ model_file = 1
    /\ m_net.score = 1

\* main of source/train.py has ended by an interrupt or by another exception
EndedAbnormally ==
    /\ m_variant = "source"
    /\ m_pc = "done"
    /\ m_exit \in {"interrupt", "ValueError", "Exception"}

\* C22: if the run ends by an interrupt or by any other exception before a
\* trained model was accepted as an improvement (min_net is None), then no
\* model file and no configuration file is written, the stored ones are as
\* they were, and the run log is written exactly if there is a log table.
C22_NothingSavedBeforeAcceptance ==
    (EndedAbnormally /\ min_net = None) =>
        /\ ~written.model
        /\ ~written.config
        /\ written.log = (log_df # None)
        /\ model_file = config_file.best_score
        /\ config_file.param = 0

C22_Witness ==
    /\ EndedAbnormally
    /\ min_net = None
    /\ m_exit = "Exception"
    /\ study.complete > 0
    /\ PAR.param = 1
    /\ log_df = 0
    /\ written = [model |-> FALSE, config |-> FALSE, log |-> TRUE]

\* two passes that ran to their end, both started in the same RNG state
SameSeedTwice == PassEnded /\ sd_prev # NoPass /\ sd_prev.draw = ld_draw

C24_ScoredOnBestNet ==
    (TestScored /\ t_losses # <<>>) =>
        /\ t_scored_net \in 1..Len(t_losses)
        /\ t_losses[t_scored_net] = MinOf(t_losses)

\* the final training of a run with a search phase has returned, and the
\* result of the search was not taken over into PAR (the user declined, CI
\* mode is on, or the best trial did not beat the stored best loss)
TrainedAfterDeclinedSearch ==
    /\ m_variant = "source"
    /\ m_pc = "decide"
    /\ config_file.exploration
    /\ PAR.best_loss = config_file.best_loss

\* C25: after a search phase whose result is not accepted, the final
\* training trains with the hyperparameters of the stored configuration,
\* the values PAR had before the search phase started.
C25_DeclinedSearchTrainsStored ==
    TrainedAfterDeclinedSearch => m_net.param = config_file.param

\* the final training has returned to main
FinalTrainingCompleted ==
    /\ m_variant = "source"
    /\ \/ m_pc = "decide"
       \/ m_pc \in {"finally", "done"} /\ (m_exit = "normal" \/ m_raised_at = "decide")

\* C26: a run logs exactly once. Where there is a log table, it holds no
\* record until the final training has returned and exactly one record from
\* then on; the record is added by the final training, and no training of a
\* search trial adds one, however many trials ran.
C26_LogsExactlyOnce ==
    /\ [][(m_variant = "source" /\ m_pc # "begin" /\ log_df' # log_df)
            => (m_pc = "final_train" /\ m_pc' = "decide" /\ log_df' = log_df + 1)]_vars
    /\ []((m_variant = "source" /\ m_pc # "begin" /\ log_df # None)
            => log_df = IF FinalTrainingCompleted THEN 1 ELSE 0)

C26_Witness ==
    /\ CompletedNormally
    /\ m_variant = "source"
    /\ config_file.exploration
    /\ study.trials = MaxTrials
    /\ log_df = 1
\* the state of the early-stopping controller
esState == <<es_counter, es_val_loss_min, es_early_stop, es_checkpoint>>

\* C27: in every epoch of train() all training batches are processed once,
\* then all validation batches once, then the early-stopping controller is
\* invoked exactly once, with that epoch's validation loss; it is never
\* invoked before the validation pass has finished and never twice in an
\* epoch.
C27_EpochOrder ==
    /\ [][/\ (t_pc = "train_batches" /\ t_pc' = t_pc)
              => (t_batch' = t_batch + 1 /\ t_batch' <= t_n_train)
          /\ (t_pc = "train_batches" /\ t_pc' # t_pc)
              => (t_batch = t_n_train /\ t_pc' = "validation_batches" /\ t_batch' = 0)
          /\ (t_pc = "validation_batches" /\ t_pc' = t_pc)
              => (t_batch' = t_batch + 1 /\ t_batch' <= t_n_val)
          /\ (t_pc = "validation_batches" /\ t_pc' # t_pc)
              => (t_batch = t_n_val /\ t_pc' = "early_stopping")
          /\ t_pc' = "validation_batches"
              => t_pc \in {"train_batches", "validation_batches"}
          /\ (t_pc' = "early_stopping" /\ t_pc # t_pc')
              => (t_pc = "validation_batches" /\ t_validation_loss' = t_validation_loss)
          /\ t_pc = "early_stopping"
              => (t_pc' # "early_stopping"
                  /\ t_losses' = Append(t_losses, t_validation_loss))
          /\ (t_losses' # t_losses \/ esState' # esState)
              => t_pc = "early_stopping"]_vars
    /\ [](InLoop => Len(t_losses) = t_epoch - 1)
    /\ []((PastLoop /\ t_pc # "raised") => Len(t_losses) = t_epoch)

C27_Witness ==
    /\ t_pc = "test_scoring"
    /\ t_n_train = MaxBatches
    /\ t_n_val = MaxBatches
    /\ t_epoch = 2
    /\ Len(t_losses) = 2
\* the jobs whose training has opened its run folder
FolderUsers == {j \in Jobs : job[j].used_id # None}

\* C28: in a search phase each trial logs to its own folder trial_{ID}: the
\* id a trial's training uses is the one this trial assigned, and no two
\* trials use the same id, also when the trials of parallel jobs interleave.
C28_TrialFoldersDistinct ==
    /\ \A j \in FolderUsers : job[j].used_id = job[j].tid + 1
    /\ \A j1, j2 \in FolderUsers : j1 # j2 => job[j1].used_id # job[j2].used_id
\* the targets of horizon step h and target variable k that picp's rule
\* counts as covered: lower < target <= upper
CoveredCount(h, k) ==
    Cardinality({b \in 1..sc_call.target.shape[1] :
        /\ sc_call.predictions[2].data[<<b, h, k>>] < sc_call.target.data[<<b, h, k>>]
        /\ sc_call.target.data[<<b, h, k>>] <= sc_call.predictions[1].data[<<b, h, k>>]})

\* C29: picp counts a target as covered exactly when lower < target <= upper;
\* the per-horizon value is 100 times the covered count of the step divided
\* by the batch size, and the total is the mean of the per-horizon values.
C29_PicpCoverageRule ==
    (/\ ScoreEnded
     /\ sc_call.fn = "picp"
     /\ ~MismatchedCall) =>
        LET B == sc_call.target.shape[1]
            H == sc_call.target.shape[2]
            K == sc_call.target.shape[3]
            steps == (1..H) \X (1..K)
            covered == [s \in steps |-> CoveredCount(s[1], s[2])]
        IN  /\ sc_result.kind = "value"
            /\ ~sc_call.total =>
                   /\ Len(sc_result.nums) = H * K
                   /\ \A s \in steps :
                          sc_result.nums[(s[1] - 1) * K + s[2]] * B
                              = 100 * covered[s] * sc_result.den
            /\ sc_call.total =>
                   sc_result.nums[1] * B * H * K
                       = 100 * Sum(covered, steps) * sc_result.den
\* the smaller of two scores
Lower(a, b) == IF a < b THEN a ELSE b

\* the run was interrupted, or failed, before the improvement decision
EndedBeforeDecision ==
    \/ m_raised_at \in {"search", "final_train"}
    \/ m_exit \in {"ValueError", "Exception"}

====
